---- MODULE Spec2Model ----
(***************************************************************************)
(* Model of the pokedex-api backend: the per-user Pokedex collection       *)
(* (app/routers/pokedex.py), the teams built on it (app/routers/teams.py)  *)
(* and the PokeAPI client they call (app/services/pokeapi_service.py).     *)
(* A request handler is one atomic action where requests are handled one   *)
(* after another; get_pokemon and the add of SpecRace are taken in the     *)
(* steps at which concurrent calls interleave, with the calls between the  *)
(* steps in `inflight`.  The relational store is the sets of rows          *)
(* `entries`, `teams` and `members`; `last` is the response of the request *)
(* handled last.                                                           *)
(***************************************************************************)
EXTENDS Integers, Sequences, FiniteSets, TLC

VARIABLES
    now,        \* the clock read by datetime.utcnow()
    entries,    \* rows of table pokedexentry
    teams,      \* rows of table team
    members,    \* rows of table teammember
    cache,      \* pokeapi_service._pokemon_cache: the rows [key, pokemon]
    last,       \* the request handled last and its response
    users,      \* rows of table user
    inflight    \* the requests that have started and not yet answered

vars == <<now, entries, teams, members, cache, last, users, inflight>>

----------------------------------------------------------------------------
(* Bounds of the model *)

\* the clock stops advancing at MaxTime
MaxTime == 2
\* the store hands out row ids up to MaxId
MaxId == 3
\* list is asked for limit in 1..MaxLimit and offset in 0..MaxOffset
MaxLimit == 2
MaxOffset == 1
\* a day has TicksPerDay instants of the clock
TicksPerDay == 2
\* the days 0 .. MaxDay of the clock of SpecStreak
MaxDay == 3

\* the registered, active users (authenticated callers); ids of table user
Users == {1, 2}
\* the Pokemon the upstream catalog holds
CatalogIds == {1, 2, 3, 4}
\* a pokemon_id the upstream catalog does not know
UnknownId == 999
\* entry and team ids a request path can carry
PathIds == 1 .. (MaxId + 1)

NickNames == {"bulbi"}
NoteTexts == {"primer intento"}

\* max_length of nickname and of notes in PokedexEntryBase
MaxNickname == 50
MaxNotes == 500
\* texts of 10, 50 and 500 characters, and texts one character longer
\* than the two limits
Text10 == "0123456789"
Text50 == Text10 \o Text10 \o Text10 \o Text10 \o Text10
Text500 == Text50 \o Text50 \o Text50 \o Text50 \o Text50
               \o Text50 \o Text50 \o Text50 \o Text50 \o Text50
LongNickname == Text50 \o "!"
LongNotes == Text500 \o "!"

Range(seq) == {seq[i] : i \in DOMAIN seq}

\* Optional[T]: <<>> is None, <<v>> is the value v
Opt(S) == {<<>>} \cup {<<v>> : v \in S}
IsNone(o) == o = <<>>

----------------------------------------------------------------------------
(* The upstream catalog (PokeAPI) and the client's normalisation *)

SPRITE_BASE_URL ==
    "https://raw.githubusercontent.com/PokeAPI/sprites/master/sprites/pokemon/other/official-artwork"

\* The JSON payload PokeAPI answers for /pokemon/<id>.  Pokemon 1 carries
\* official artwork and a default sprite, the others no sprite at all.
Payload(id) ==
    [ id |-> id,
      name |-> IF id = 1 THEN "bulbasaur" ELSE IF id = 2 THEN "ivysaur"
               ELSE IF id = 3 THEN "venusaur" ELSE "charmander",
      artwork |-> IF id = 1 THEN <<"https://img/artwork/1.png">> ELSE <<>>,
      front_default |-> IF id = 1 THEN <<"https://img/front/1.png">> ELSE <<>>,
      types |-> IF id = 1 THEN <<"grass", "poison">>
                ELSE IF id = 4 THEN <<"fire">> ELSE <<"poison">> ]

build_sprite_url(pokemon_id) ==
    SPRITE_BASE_URL \o "/" \o ToString(pokemon_id) \o ".png"

\* PokeAPIService._transform_pokemon
transform_pokemon(payload) ==
    [ id |-> payload.id,
      name |-> payload.name,
      sprite |-> IF ~IsNone(payload.artwork) THEN payload.artwork[1]
                 ELSE IF ~IsNone(payload.front_default) THEN payload.front_default[1]
                 ELSE build_sprite_url(payload.id),
      types |-> payload.types ]

\* What one upstream GET can end in: a 2xx answer, a 404, another error
\* status, or a network failure (timeout, connection error).
UpstreamOutcomes(identifier) ==
    (IF identifier \in CatalogIds THEN {"ok"} ELSE {}) \cup {"404", "status", "network"}

\* PokeAPIService._handle_httpx_error: the status of the HTTPException raised
handle_httpx_error(outcome) ==
    IF outcome = "404" THEN 404
    ELSE IF outcome = "status" THEN 502
    ELSE 503

----------------------------------------------------------------------------
(* The store *)

SetMax(S) == CHOOSE x \in S : \A y \in S : y <= x

\* An INTEGER PRIMARY KEY of SQLite (no AUTOINCREMENT): one more than the
\* largest id in the table, 1 for an empty table.
NextId(rows) == IF rows = {} THEN 1 ELSE SetMax({r.id : r \in rows}) + 1

\* session.get(PokedexEntry, entry_id)
GetEntry(entry_id) == {e \in entries : e.id = entry_id}

\* The response of a request: who asked for what, the status answered, the
\* request body (of a request that was committed, and of every create_team),
\* and the body answered.
Response(op, user, status, id, data, result) ==
    [op |-> op, user |-> user, status |-> status, id |-> id,
     data |-> data, result |-> result]

\* pwd_context.hash and pwd_context.verify: a hash is not the password, and
\* verifies against the password it was made of only
get_password_hash(password) == [pbkdf2_sha256 |-> password]
verify_password(plain_password, hashed_password) ==
    hashed_password = get_password_hash(plain_password)

\* a row of table user, as register_user stores it (is_active defaults to True)
UserRow(id, username, email, password, created_at) ==
    [ id |-> id, username |-> username, email |-> email,
      hashed_password |-> get_password_hash(password),
      created_at |-> created_at, is_active |-> TRUE ]

\* the two users of Users, registered before the first request of the model
Registered ==
    { UserRow(1, "ash", "ash@kanto.io", "pikachu", 0),
      UserRow(2, "misty", "misty@kanto.io", "starmie", 0) }

Init ==
    /\ now = 0
    /\ entries = {}
    /\ teams = {}
    /\ members = {}
    /\ cache = {}
    /\ last = Response("none", 0, 0, 0, <<>>, <<>>)
    /\ users = Registered
    /\ inflight = {}

\* time passes between requests
Tick ==
    /\ now < MaxTime
    /\ now' = now + 1
    /\ UNCHANGED <<entries, teams, members, cache, last, users, inflight>>

----------------------------------------------------------------------------
(* app/routers/pokedex.py *)

\* A PokedexEntryCreate body
CreateBody(pokemon_id, nickname, notes, is_captured, favorite) ==
    [ pokemon_id |-> pokemon_id, nickname |-> nickname, notes |-> notes,
      is_captured |-> is_captured, favorite |-> favorite ]

\* an ownership check that lets every caller through
ensure_owner_Skipped(row_owner, current_user) == TRUE

\* ensure_owner / ensure_team_owner: the row is the caller's
ensure_owner(row_owner, current_user) == row_owner = current_user

\* A duplicate check that forgets the owner
ExistingEntry_AnyOwner(current_user, pokemon_id) ==
    {e \in entries : e.pokemon_id = pokemon_id}

\* A duplicate check that looks the Pokemon up by row id
ExistingEntry_ById(current_user, pokemon_id) ==
    {e \in entries : e.owner_id = current_user /\ e.id = pokemon_id}

\* select(PokedexEntry).where(owner_id == current_user.id, pokemon_id == ...)
ExistingEntry(current_user, pokemon_id) ==
    {e \in entries : e.owner_id = current_user /\ e.pokemon_id = pokemon_id}

\* A lookup that answers a placeholder Pokemon when the upstream call fails
sync_get_pokemon_Fallback(identifier, outcome) ==
    [status |-> 200,
     pokemon |-> <<[id |-> identifier, name |-> "unknown",
                    sprite |-> build_sprite_url(identifier), types |-> <<>>]>>]

\* PokeAPIService.sync_get_pokemon: the status it ends with and the pokemon
sync_get_pokemon(identifier, outcome) ==
    IF outcome = "ok"
    THEN [status |-> 200, pokemon |-> <<transform_pokemon(Payload(identifier))>>]
    ELSE [status |-> handle_httpx_error(outcome), pokemon |-> <<>>]

\* The status add_pokemon_to_pokedex answers: 400 for a Pokemon the caller
\* holds, else the status of the failed lookup, else 201
add_status(current_user, pokemon_id, outcome) ==
    IF ExistingEntry(current_user, pokemon_id) # {} THEN 400
    ELSE IF sync_get_pokemon(pokemon_id, outcome).status # 200
    THEN sync_get_pokemon(pokemon_id, outcome).status
    ELSE 201

\* POST /api/v1/pokedex.  `outcome` is what the upstream GET ends in, when
\* the handler gets as far as making it; the response records it in `data`.
add_pokemon_to_pokedex(current_user, data, outcome) ==
    LET existing == ExistingEntry(current_user, data.pokemon_id)
        status == add_status(current_user, data.pokemon_id, outcome)
        pokemon_data == sync_get_pokemon(data.pokemon_id, outcome).pokemon[1]
        entry == [ id |-> NextId(entries),
                   owner_id |-> current_user,
                   pokemon_id |-> pokemon_data.id,
                   pokemon_name |-> pokemon_data.name,
                   pokemon_sprite |-> pokemon_data.sprite,
                   is_captured |-> data.is_captured,
                   favorite |-> data.favorite,
                   nickname |-> data.nickname,
                   notes |-> data.notes,
                   capture_date |-> IF data.is_captured THEN <<now>> ELSE <<>>,
                   created_at |-> now ]
    IN  /\ UNCHANGED <<users, inflight, now, teams, members, cache>>
        /\ IF status # 201
           THEN /\ last' = Response("add", current_user, status, data.pokemon_id,
                                    IF existing # {} THEN <<>> ELSE <<outcome>>, <<>>)
                /\ UNCHANGED entries
           ELSE /\ entries' = entries \cup {entry}
                /\ last' = Response("add", current_user, 201, data.pokemon_id,
                                    <<outcome>>, <<entry.id>>)

\* add_pokemon_to_pokedex up to the duplicate check, for a request handled
\* in a thread of its own next to others (the handler is a plain `def`):
\* the select finds an entry and the request is refused, or finds none and
\* the request goes on to the catalog lookup.  rid names the request.
add_pokemon_to_pokedex_check(rid, current_user, data) ==
    /\ \A r \in inflight : r.rid # rid
    /\ UNCHANGED <<now, entries, teams, members, cache, users>>
    /\ IF ExistingEntry(current_user, data.pokemon_id) # {}
       THEN /\ last' = Response("add", current_user, 400, data.pokemon_id, <<>>, <<>>)
            /\ UNCHANGED inflight
       ELSE /\ inflight' = inflight \cup
                    {[rid |-> rid, current_user |-> current_user, data |-> data]}
            /\ last' = Response("add_checked", current_user, 0, data.pokemon_id,
                                 <<>>, <<>>)

\* An insert that a unique index on (owner_id, pokemon_id) refuses
add_pokemon_to_pokedex_commit_Unique(r, outcome) ==
    LET data == r.data
        looked == sync_get_pokemon(data.pokemon_id, outcome)
        id == NextId(entries)
    IN  /\ r \in inflight
        /\ inflight' = inflight \ {r}
        /\ UNCHANGED <<now, teams, members, cache, users>>
        /\ IF looked.status # 200
           THEN /\ last' = Response("add", r.current_user, looked.status,
                                    data.pokemon_id, <<outcome>>, <<>>)
                /\ UNCHANGED entries
           ELSE IF ExistingEntry(r.current_user, data.pokemon_id) # {}
           THEN /\ last' = Response("add", r.current_user, 500,
                                    data.pokemon_id, <<outcome>>, <<>>)
                /\ UNCHANGED entries
           ELSE /\ entries' = entries \cup
                    {[ id |-> id,
                       owner_id |-> r.current_user,
                       pokemon_id |-> looked.pokemon[1].id,
                       pokemon_name |-> looked.pokemon[1].name,
                       pokemon_sprite |-> looked.pokemon[1].sprite,
                       is_captured |-> data.is_captured,
                       favorite |-> data.favorite,
                       nickname |-> data.nickname,
                       notes |-> data.notes,
                       capture_date |-> IF data.is_captured THEN <<now>> ELSE <<>>,
                       created_at |-> now ]}
                /\ last' = Response("add", r.current_user, 201, data.pokemon_id,
                                    <<outcome>>, <<id>>)

\* add_pokemon_to_pokedex from the catalog lookup on, for a request that
\* passed the duplicate check: a failed lookup is answered with its status;
\* else the entry is inserted and committed.  The table has the primary key
\* as its only unique index.
add_pokemon_to_pokedex_commit(r, outcome) ==
    LET data == r.data
        looked == sync_get_pokemon(data.pokemon_id, outcome)
        id == NextId(entries)
    IN  /\ r \in inflight
        /\ inflight' = inflight \ {r}
        /\ UNCHANGED <<now, teams, members, cache, users>>
        /\ IF looked.status # 200
           THEN /\ last' = Response("add", r.current_user, looked.status,
                                    data.pokemon_id, <<outcome>>, <<>>)
                /\ UNCHANGED entries
           ELSE /\ entries' = entries \cup
                    {[ id |-> id,
                       owner_id |-> r.current_user,
                       pokemon_id |-> looked.pokemon[1].id,
                       pokemon_name |-> looked.pokemon[1].name,
                       pokemon_sprite |-> looked.pokemon[1].sprite,
                       is_captured |-> data.is_captured,
                       favorite |-> data.favorite,
                       nickname |-> data.nickname,
                       notes |-> data.notes,
                       capture_date |-> IF data.is_captured THEN <<now>> ELSE <<>>,
                       created_at |-> now ]}
                /\ last' = Response("add", r.current_user, 201, data.pokemon_id,
                                    <<outcome>>, <<id>>)

\* The fields of a PokedexEntryUpdate body
UpdateFields == {"nickname", "notes", "is_captured", "favorite"}
\* The columns among them declared NOT NULL (models.py: `bool`, not Optional)
NotNullFields == {"is_captured", "favorite"}

\* an update from data.dict(): the fields the request left unset are written
\* too, with the defaults of PokedexEntryUpdate (None)
ApplyUpdate_Unset(entry, update_data) ==
    [ f \in DOMAIN entry |->
        IF f \in DOMAIN update_data
        THEN IF f \in NotNullFields
             THEN (IF IsNone(update_data[f]) THEN FALSE ELSE update_data[f][1])
             ELSE update_data[f]
        ELSE IF f \in {"nickname", "notes"} THEN <<>>
        ELSE entry[f] ]

\* setattr(entry, field, value) for every field of update_data
ApplyUpdate(entry, update_data) ==
    [ f \in DOMAIN entry |->
        IF f \in DOMAIN update_data
        THEN IF f \in NotNullFields
             THEN (IF IsNone(update_data[f]) THEN FALSE ELSE update_data[f][1])
             ELSE update_data[f]
        ELSE entry[f] ]

\* A stamp that does not look whether the entry already has a capture date
StampCapture_Always(entry, update_data) ==
    IF "is_captured" \in DOMAIN update_data /\ entry.is_captured
    THEN [entry EXCEPT !.capture_date = <<now>>]
    ELSE entry

\* A patch that leaves the capture date as it finds it
StampCapture_Never(entry, update_data) == entry

\* "if is_captured in update_data and entry.is_captured and entry.capture_date is None"
StampCapture(entry, update_data) ==
    IF "is_captured" \in DOMAIN update_data /\ entry.is_captured
       /\ IsNone(entry.capture_date)
    THEN [entry EXCEPT !.capture_date = <<now>>]
    ELSE entry

\* PATCH /api/v1/pokedex/{entry_id}; update_data is data.dict(exclude_unset=True)
update_pokedex_entry(current_user, entry_id, update_data) ==
    LET found == GetEntry(entry_id)
        entry == CHOOSE e \in found : TRUE
        nulled == {f \in DOMAIN update_data \cap NotNullFields : IsNone(update_data[f])}
        updated == StampCapture(ApplyUpdate(entry, update_data), update_data)
    IN  /\ UNCHANGED <<users, inflight, now, teams, members, cache>>
        /\ IF found = {}
           THEN /\ last' = Response("patch", current_user, 404, entry_id, <<>>, <<>>)
                /\ UNCHANGED entries
           ELSE IF ~ensure_owner(entry.owner_id, current_user)
           THEN /\ last' = Response("patch", current_user, 403, entry_id, <<>>, <<>>)
                /\ UNCHANGED entries
           ELSE IF nulled # {}
           THEN \* session.commit() violates NOT NULL: IntegrityError, rolled back
                /\ last' = Response("patch", current_user, 500, entry_id, <<>>, <<>>)
                /\ UNCHANGED entries
           ELSE /\ entries' = (entries \ {entry}) \cup {updated}
                /\ last' = Response("patch", current_user, 200, entry_id, update_data, <<>>)

\* a delete that answers 204 to the owner and keeps the row
delete_pokedex_entry_Kept(current_user, entry_id) ==
    LET found == GetEntry(entry_id)
        entry == CHOOSE e \in found : TRUE
    IN  /\ UNCHANGED <<users, inflight, now, entries, teams, members, cache>>
        /\ last' = Response("delete", current_user,
                            IF found = {} THEN 404
                            ELSE IF ~ensure_owner(entry.owner_id, current_user) THEN 403
                            ELSE 204,
                            entry_id, <<>>, <<>>)

\* DELETE /api/v1/pokedex/{entry_id}
delete_pokedex_entry(current_user, entry_id) ==
    LET found == GetEntry(entry_id)
        entry == CHOOSE e \in found : TRUE
    IN  /\ UNCHANGED <<users, inflight, now, teams, members, cache>>
        /\ IF found = {}
           THEN /\ last' = Response("delete", current_user, 404, entry_id, <<>>, <<>>)
                /\ UNCHANGED entries
           ELSE IF ~ensure_owner(entry.owner_id, current_user)
           THEN /\ last' = Response("delete", current_user, 403, entry_id, <<>>, <<>>)
                /\ UNCHANGED entries
           ELSE /\ entries' = entries \ {entry}
                /\ last' = Response("delete", current_user, 204, entry_id, <<>>, <<>>)

\* ---- reads of the collection ----

Min(a, b) == IF a <= b THEN a ELSE b

\* the values of the query parameters sort and order (their patterns)
SortKeys == {"pokemon_id", "capture_date", "pokemon_name"}
Orders == {"asc", "desc"}

\* a where clause that forgets the owner
Filtered_AllOwners(current_user, captured, favorite) ==
    {e \in entries :
        /\ IsNone(captured) \/ e.is_captured = captured[1]
        /\ IsNone(favorite) \/ e.favorite = favorite[1]}

\* select(PokedexEntry).where(owner_id == current_user.id) and the where
\* clause of each filter that is not None
Filtered(current_user, captured, favorite) ==
    {e \in entries :
        /\ e.owner_id = current_user
        /\ IsNone(captured) \/ e.is_captured = captured[1]
        /\ IsNone(favorite) \/ e.favorite = favorite[1]}

\* the names of the catalog in the order of the BINARY collation
NameOrder == <<"bulbasaur", "charmander", "ivysaur", "venusaur">>
NameRank(name) == CHOOSE i \in DOMAIN NameOrder : NameOrder[i] = name

\* a sorts strictly before b in the ascending order of column `sort`; the
\* store (SQLite) puts NULL before every value
KeyLess(sort, a, b) ==
    IF sort = "pokemon_id" THEN a.pokemon_id < b.pokemon_id
    ELSE IF sort = "pokemon_name"
    THEN NameRank(a.pokemon_name) < NameRank(b.pokemon_name)
    ELSE IF IsNone(b.capture_date) THEN FALSE
    ELSE IF IsNone(a.capture_date) THEN TRUE
    ELSE a.capture_date[1] < b.capture_date[1]

\* sort_column.asc() / sort_column.desc()
Before(sort, order, a, b) ==
    IF order = "asc" THEN KeyLess(sort, a, b) ELSE KeyLess(sort, b, a)

\* The orders in which a query can return the rows `rows`: a statement
\* without ORDER BY fixes none
Scans(rows) ==
    {s \in [1 .. Cardinality(rows) -> rows] :
        \A i, j \in 1 .. Cardinality(rows) : i # j => s[i] # s[j]}

\* .order_by(column): the rows come sorted by the one column; the statement
\* names no second key, so rows with equal values come in any order
OrderBy(rows, sort, order) ==
    {s \in Scans(rows) :
        \A i, j \in DOMAIN s : i < j => ~Before(sort, order, s[j], s[i])}

\* .offset(offset).limit(limit)
OffsetLimit(s, offset, limit) == SubSeq(s, offset + 1, Min(Len(s), offset + limit))

\* the query parameters of GET /api/v1/pokedex
ListQuery(captured, favorite, sort, order, limit, offset) ==
    [captured |-> captured, favorite |-> favorite, sort |-> sort,
     order |-> order, limit |-> limit, offset |-> offset]

\* what session.exec(statement).all() can return
ListResults(current_user, captured, favorite, sort, order, limit, offset) ==
    { OffsetLimit(s, offset, limit) :
        s \in OrderBy(Filtered(current_user, captured, favorite), sort, order) }

\* GET /api/v1/pokedex
list_pokedex(current_user, captured, favorite, sort, order, limit, offset) ==
    \E result \in ListResults(current_user, captured, favorite, sort, order, limit, offset) :
        /\ last' = Response("list", current_user, 200, 0,
                            <<ListQuery(captured, favorite, sort, order, limit, offset)>>,
                            <<result>>)
        /\ UNCHANGED <<users, inflight, now, entries, teams, members, cache>>

\* datetime.isoformat() and str() of a bool, as the csv writer writes them
IsoFormat(t) == "T" \o ToString(t)
BoolStr(b) == IF b THEN "True" ELSE "False"

\* the columns of the export, in order
fieldnames ==
    <<"id", "pokemon_id", "pokemon_name", "pokemon_sprite", "is_captured",
      "capture_date", "nickname", "notes", "favorite", "created_at">>

\* a row that leaves the capture_date column empty
ExportRow_NoDate(e) ==
    << ToString(e.id), ToString(e.pokemon_id), e.pokemon_name, e.pokemon_sprite,
       BoolStr(e.is_captured), "",
       IF IsNone(e.nickname) THEN "" ELSE e.nickname[1],
       IF IsNone(e.notes) THEN "" ELSE e.notes[1],
       BoolStr(e.favorite), IsoFormat(e.created_at) >>

\* writer.writerow({...}) for an entry: the text of each column
ExportRow(e) ==
    << ToString(e.id), ToString(e.pokemon_id), e.pokemon_name, e.pokemon_sprite,
       BoolStr(e.is_captured),
       IF IsNone(e.capture_date) THEN "" ELSE IsoFormat(e.capture_date[1]),
       IF IsNone(e.nickname) THEN "" ELSE e.nickname[1],
       IF IsNone(e.notes) THEN "" ELSE e.notes[1],
       BoolStr(e.favorite), IsoFormat(e.created_at) >>

\* The documents the export can answer: UTF-8 with BOM, delimiter ";", every
\* field quoted, the header and one row per filtered entry in scan order
ExportDocs(current_user, captured, favorite) ==
    { [ bom |-> TRUE, delimiter |-> ";", quoted |-> TRUE, header |-> fieldnames,
        rows |-> [i \in DOMAIN s |-> ExportRow(s[i])] ] :
      s \in Scans(Filtered(current_user, captured, favorite)) }

\* GET /api/v1/pokedex/export
export_pokedex(current_user, captured, favorite) ==
    \E doc \in ExportDocs(current_user, captured, favorite) :
        /\ last' = Response("export", current_user, 200, 0,
                            <<[captured |-> captured, favorite |-> favorite]>>, <<doc>>)
        /\ UNCHANGED <<users, inflight, now, entries, teams, members, cache>>

\* a rounding that cuts the digits after the first decimal
RoundTenths_Truncate(num, den) == num \div den

\* round(num / den) to the nearest integer, a tie to the even one: the tenths
\* of round(captured * 100.0 / total, 1) for num = captured * 1000
RoundTenths(num, den) ==
    LET q == num \div den
        r == num % den
    IN  IF 2 * r < den THEN q
        ELSE IF 2 * r > den THEN q + 1
        ELSE IF q % 2 = 0 THEN q ELSE q + 1

\* datetime.date(): the day of an instant
Date(t) == t \div TicksPerDay

\* sorted(set of days)
RECURSIVE SortedDays(_)
SortedDays(D) ==
    IF D = {} THEN <<>>
    ELSE LET d == CHOOSE x \in D : \A y \in D : x <= y
         IN  <<d>> \o SortedDays(D \ {d})

\* the loop over capture_dates from index i on: previous_date is ds[i-1]
RECURSIVE StreakLoop(_, _, _, _)
StreakLoop(ds, i, current_streak, longest_streak) ==
    IF i > Len(ds) THEN longest_streak
    ELSE LET cur == IF i = 1 THEN 1
                    ELSE IF ds[i] = ds[i - 1] + 1 THEN current_streak + 1
                    ELSE 1
         IN  StreakLoop(ds, i + 1, cur,
                        IF cur > longest_streak THEN cur ELSE longest_streak)

\* a streak that counts the dated entries instead of the days in a row
LongestStreak_Entries(rows) ==
    Cardinality({x \in rows : ~IsNone(x.capture_date)})

LongestStreak(rows) ==
    StreakLoop(SortedDays({Date(e.capture_date[1]) :
                              e \in {x \in rows : ~IsNone(x.capture_date)}}),
               1, 0, 0)

\* _cache_key and the cache row stored for a fetched Pokemon
cache_key(identifier) == ToString(identifier)
CacheRow(identifier) ==
    [key |-> cache_key(identifier), pokemon |-> transform_pokemon(Payload(identifier))]
Cached(identifier) == {c \in cache : c.key = cache_key(identifier)}

\* what get_pokemon returns when it does not fail: the cached value, or the
\* transformed payload of the upstream answer
get_pokemon_data(identifier) ==
    IF Cached(identifier) # {} THEN (CHOOSE c \in Cached(identifier) : TRUE).pokemon
    ELSE transform_pokemon(Payload(identifier))

\* the pokemon_ids of a scan in the order the loop meets them first (seen_ids)
RECURSIVE SeenOrder(_, _)
SeenOrder(s, seen) ==
    IF s = <<>> THEN <<>>
    ELSE IF s[1].pokemon_id \in seen THEN SeenOrder(Tail(s), seen)
    ELSE <<s[1].pokemon_id>> \o SeenOrder(Tail(s), seen \cup {s[1].pokemon_id})

\* the upstream GETs of the loop: the ids met that the cache does not hold
Fetches(ids) == SelectSeq(ids, LAMBDA id : Cached(id) = {})

\* the types counted, in the order they enter the Counter
RECURSIVE TypeSeq(_)
TypeSeq(ids) ==
    IF ids = <<>> THEN <<>>
    ELSE get_pokemon_data(ids[1]).types \o TypeSeq(Tail(ids))

\* a most common type that takes, among equally counted types, the one
\* that entered the Counter last
most_common_type_Last(types) ==
    LET count(t) == Cardinality({i \in DOMAIN types : types[i] = t})
        best == CHOOSE i \in DOMAIN types :
                    /\ \A j \in DOMAIN types : count(types[j]) <= count(types[i])
                    /\ \A j \in (i + 1) .. Len(types) : count(types[j]) < count(types[i])
    IN  IF types = <<>> THEN <<>> ELSE <<types[best]>>

\* type_counter.most_common(1)[0][0]: the most counted type, among equally
\* counted ones the one that entered the Counter first; None for no types
most_common_type(types) ==
    LET count(t) == Cardinality({i \in DOMAIN types : types[i] = t})
        best == CHOOSE i \in DOMAIN types :
                    /\ \A j \in DOMAIN types : count(types[j]) <= count(types[i])
                    /\ \A j \in 1 .. (i - 1) : count(types[j]) < count(types[i])
    IN  IF types = <<>> THEN <<>> ELSE <<types[best]>>

\* PokedexStats for the rows of a scan; completion_percentage in tenths
PokedexStats(s) ==
    LET rows == Range(s)
        total == Cardinality(rows)
        captured == Cardinality({e \in rows : e.is_captured})
    IN  [ total_pokemon |-> total,
          captured |-> captured,
          favorites |-> Cardinality({e \in rows : e.favorite}),
          completion_percentage |->
              IF total > 0 THEN RoundTenths(captured * 1000, total) ELSE 0,
          most_common_type |-> most_common_type(TypeSeq(SeenOrder(s, {}))),
          capture_streak_days |-> LongestStreak(rows) ]

\* GET /api/v1/pokedex/stats.  `s` is the order the query returns the caller's
\* entries in; the first `fetched` upstream GETs of the loop succeed and are
\* cached, and `outcome` is what the next one ends in ("ok": there is none).
get_pokedex_stats(current_user, s, fetched, outcome) ==
    LET gets == Fetches(SeenOrder(s, {}))
    IN  /\ fetched \in 0 .. Len(gets)
        /\ (outcome = "ok") <=> (fetched = Len(gets))
        /\ cache' = cache \cup {CacheRow(gets[i]) : i \in 1 .. fetched}
        /\ last' = IF outcome = "ok"
                   THEN Response("stats", current_user, 200, 0, <<>>, <<PokedexStats(s)>>)
                   ELSE Response("stats", current_user, handle_httpx_error(outcome),
                                 0, <<>>, <<>>)
        /\ UNCHANGED <<users, inflight, now, entries, teams, members>>

----------------------------------------------------------------------------
(* app/services/pokeapi_service.py: get_pokemon, step by step *)

\* the id_or_name of GET /api/v1/pokemon/{id_or_name}: a string
Identifiers == {"1", "bulbasaur", "Bulbasaur", "ivysaur", "999999"}

\* str.lower() on the identifiers
lower(identifier) == IF identifier = "Bulbasaur" THEN "bulbasaur" ELSE identifier

\* A key that keeps the identifier as it was given
cache_key_str_AsGiven(identifier) == identifier

\* _cache_key of a string identifier
cache_key_str(identifier) == lower(identifier)

\* the Pokemon the catalog knows under the identifier of the URL, if any
CatalogItem(identifier) ==
    IF identifier \in {"1", "bulbasaur", "Bulbasaur"} THEN <<1>>
    ELSE IF identifier = "ivysaur" THEN <<2>>
    ELSE <<>>

\* what the upstream GET of /pokemon/{identifier} can end in
GetOutcomes(identifier) ==
    (IF IsNone(CatalogItem(identifier)) THEN {} ELSE {"ok"})
        \cup {"404", "status", "network"}

\* self._pokemon_cache[key] = pokemon
CachePut(rows, key, pokemon) ==
    {c \in rows : c.key # key} \cup {[key |-> key, pokemon |-> pokemon]}

\* self._pokemon_cache[key], for a key in the cache
CacheGet(key) == (CHOOSE c \in cache : c.key = key).pokemon

\* get_pokemon up to `await client.get(url)`: a cached value is returned at
\* once; else the upstream request is sent and the get waits for its answer.
\* rid names the call.
get_pokemon_begin(rid, identifier) ==
    LET key == cache_key_str(identifier)
    IN  /\ \A r \in inflight : r.rid # rid
        /\ UNCHANGED <<now, entries, teams, members, cache, users>>
        /\ IF \E c \in cache : c.key = key
           THEN /\ last' = Response("get_pokemon", 0, 200, rid,
                                     [identifier |-> identifier, upstream |-> <<>>],
                                     <<[pokemon |-> <<CacheGet(key)>>, requests |-> 0]>>)
                /\ UNCHANGED inflight
           ELSE /\ inflight' = inflight \cup
                        {[rid |-> rid, identifier |-> identifier, requests |-> 1]}
                /\ last' = Response("get_pokemon_sent", 0, 0, rid,
                                     [identifier |-> identifier, upstream |-> <<>>], <<>>)

\* A get that sends the request once more when the upstream call fails
get_pokemon_end_Retry(r, outcome) ==
    LET key == cache_key_str(r.identifier)
        pokemon == transform_pokemon(Payload(CatalogItem(r.identifier)[1]))
        data == [identifier |-> r.identifier, upstream |-> <<outcome>>]
    IN  /\ r \in inflight
        /\ UNCHANGED <<now, entries, teams, members, users>>
        /\ IF outcome = "ok"
           THEN /\ cache' = CachePut(CachePut(cache, key, pokemon),
                                     ToString(pokemon.id), pokemon)
                /\ inflight' = inflight \ {r}
                /\ last' = Response("get_pokemon", 0, 200, r.rid, data,
                                     <<[pokemon |-> <<pokemon>>, requests |-> r.requests]>>)
           ELSE IF r.requests < 2
           THEN /\ cache' = cache
                /\ inflight' = (inflight \ {r}) \cup {[r EXCEPT !.requests = 2]}
                /\ last' = Response("get_pokemon_sent", 0, 0, r.rid, data, <<>>)
           ELSE /\ cache' = cache
                /\ inflight' = inflight \ {r}
                /\ last' = Response("get_pokemon", 0, handle_httpx_error(outcome), r.rid,
                                     data, <<[pokemon |-> <<>>, requests |-> r.requests]>>)

\* get_pokemon from the answer of the upstream on: a failure is raised as
\* the HTTPException of _handle_httpx_error; an answer is transformed, stored
\* under the key and under str(id), and returned
get_pokemon_end(r, outcome) ==
    LET key == cache_key_str(r.identifier)
        pokemon == transform_pokemon(Payload(CatalogItem(r.identifier)[1]))
        data == [identifier |-> r.identifier, upstream |-> <<outcome>>]
    IN  /\ r \in inflight
        /\ UNCHANGED <<now, entries, teams, members, users>>
        /\ inflight' = inflight \ {r}
        /\ IF outcome = "ok"
           THEN /\ cache' = CachePut(CachePut(cache, key, pokemon),
                                     ToString(pokemon.id), pokemon)
                /\ last' = Response("get_pokemon", 0, 200, r.rid, data,
                                     <<[pokemon |-> <<pokemon>>, requests |-> r.requests]>>)
           ELSE /\ cache' = cache
                /\ last' = Response("get_pokemon", 0, handle_httpx_error(outcome), r.rid,
                                     data, <<[pokemon |-> <<>>, requests |-> r.requests]>>)

----------------------------------------------------------------------------
(* app/routers/teams.py *)

\* a team has at most 6 members
MaxTeamSize == 6

\* session.get(Team, team_id)
GetTeam(team_id) == {t \in teams : t.id = team_id}

\* The fields TeamRead declares without a default (models.py) and the
\* keyword arguments the handlers of teams.py construct it with; the
\* construction raises a ValidationError when a declared field is missing,
\* which the application answers with 500.
TeamReadFields == {"id", "name", "description", "created_at", "members"}
TeamReadArgs == {"id", "name", "description", "created_at", "pokemon_ids"}
TeamReadStatus(ok) == IF TeamReadFields \subseteq TeamReadArgs THEN ok ELSE 500

\* Checks of a member list that forget the repeated ids
ValidateMembers_Repeats(current_user, pokemon_ids) ==
    IF pokemon_ids = <<>> THEN 400
    ELSE IF Len(pokemon_ids) > MaxTeamSize THEN 400
    ELSE IF \E i \in DOMAIN pokemon_ids :
                ExistingEntry(current_user, pokemon_ids[i]) = {} THEN 400
    ELSE 0

\* The checks of a member list, in the order of the code: 0 when it passes,
\* else the status of the HTTPException raised.
ValidateMembers(current_user, pokemon_ids) ==
    IF pokemon_ids = <<>> THEN 400
    ELSE IF Len(pokemon_ids) > MaxTeamSize THEN 400
    ELSE IF Cardinality(Range(pokemon_ids)) # Len(pokemon_ids) THEN 400
    ELSE IF \E i \in DOMAIN pokemon_ids :
                ExistingEntry(current_user, pokemon_ids[i]) = {} THEN 400
    ELSE 0

\* The detail of the HTTPException of a member list: the first poke_id of the
\* loop over the list the caller has no entry of ("Pokemon with id {poke_id}
\* is not in your Pokedex"), nothing for the other refusals.
MissingMember(current_user, pokemon_ids) ==
    LET missing == {i \in DOMAIN pokemon_ids :
                      ExistingEntry(current_user, pokemon_ids[i]) = {}}
    IN  IF \/ pokemon_ids = <<>>
           \/ Len(pokemon_ids) > MaxTeamSize
           \/ Cardinality(Range(pokemon_ids)) # Len(pokemon_ids)
           \/ missing = {}
        THEN <<>>
        ELSE <<pokemon_ids[CHOOSE i \in missing : \A j \in missing : i <= j]>>

\* .first() of the query for the caller's entry of a Pokemon: the row the
\* store meets first, the one with the smallest id
FirstEntry(current_user, poke_id) ==
    CHOOSE e \in ExistingEntry(current_user, poke_id) :
        \A o \in ExistingEntry(current_user, poke_id) : e.id <= o.id

\* pokedex_entry_ids: the caller's entry id for each supplied pokemon_id
pokedex_entry_ids(current_user, pokemon_ids) ==
    [i \in DOMAIN pokemon_ids |-> FirstEntry(current_user, pokemon_ids[i]).id]

\* An enumerate without start=1: the positions count from 0
NewMembers_FromZero(kept, team_id, entry_ids) ==
    { [ id |-> NextId(kept) + position - 1,
        team_id |-> team_id,
        pokedex_entry_id |-> entry_ids[position],
        position |-> position - 1 ] : position \in DOMAIN entry_ids }

\* for position, pokedex_entry_id in enumerate(pokedex_entry_ids, start=1):
\* the member rows inserted for a team, after the rows `kept`
NewMembers(kept, team_id, entry_ids) ==
    { [ id |-> NextId(kept) + position - 1,
        team_id |-> team_id,
        pokedex_entry_id |-> entry_ids[position],
        position |-> position ] : position \in DOMAIN entry_ids }

\* select(TeamMember, PokedexEntry).join(...).where(team_id).order_by(position):
\* the joined rows of a team in position order
RECURSIVE SortedByPosition(_)
SortedByPosition(rows) ==
    IF rows = {} THEN <<>>
    ELSE LET m == CHOOSE r \in rows :
                    \A o \in rows : r.position < o.position
                                    \/ (r.position = o.position /\ r.id <= o.id)
         IN  <<m>> \o SortedByPosition(rows \ {m})

TeamJoin(team_id) ==
    SortedByPosition(
        { [ id |-> mx[1].id, position |-> mx[1].position,
            pokemon_id |-> mx[2].pokemon_id, pokemon_name |-> mx[2].pokemon_name ] :
          mx \in { x \in members \X entries :
                     x[1].team_id = team_id /\ x[1].pokedex_entry_id = x[2].id } })

\* get_team_pokemon_ids_for_user
get_team_pokemon_ids_for_user(team_id) ==
    [i \in DOMAIN TeamJoin(team_id) |-> TeamJoin(team_id)[i].pokemon_id]

\* POST /api/v1/teams
create_team(current_user, data) ==
    LET invalid == ValidateMembers(current_user, data.pokemon_ids)
        team == [ id |-> NextId(teams), trainer_id |-> current_user,
                  name |-> data.name, description |-> data.description,
                  created_at |-> now ]
        rows == NewMembers(members, team.id,
                           pokedex_entry_ids(current_user, data.pokemon_ids))
    IN  /\ UNCHANGED <<users, inflight, now, entries, cache>>
        /\ IF invalid # 0
           THEN /\ last' = Response("create_team", current_user, invalid, 0, data,
                                    MissingMember(current_user, data.pokemon_ids))
                /\ UNCHANGED <<teams, members>>
           ELSE /\ teams' = teams \cup {team}
                /\ members' = members \cup rows
                /\ last' = Response("create_team", current_user, TeamReadStatus(201),
                                    team.id, data, <<>>)

\* An update that inserts the new member rows without deleting the old ones
update_team_KeepsOld(current_user, team_id, data) ==
    LET found == GetTeam(team_id)
        team == CHOOSE t \in found : TRUE
        named == IF IsNone(data.name) THEN team ELSE [team EXCEPT !.name = data.name[1]]
        updated == IF IsNone(data.description) THEN named
                   ELSE [named EXCEPT !.description = data.description]
        invalid == IF IsNone(data.pokemon_ids) THEN 0
                   ELSE ValidateMembers(current_user, data.pokemon_ids[1])
        kept == {m \in members : m.team_id # team.id}
    IN  /\ UNCHANGED <<users, inflight, now, entries, cache>>
        /\ IF found = {}
           THEN /\ last' = Response("update_team", current_user, 404, team_id, <<>>, <<>>)
                /\ UNCHANGED <<teams, members>>
           ELSE IF ~ensure_owner(team.trainer_id, current_user)
           THEN /\ last' = Response("update_team", current_user, 403, team_id, <<>>, <<>>)
                /\ UNCHANGED <<teams, members>>
           ELSE IF invalid # 0
           THEN \* the HTTPException leaves the handler before session.commit():
                \* the session is closed and its changes are rolled back
                /\ last' = Response("update_team", current_user, invalid, team_id, data,
                                    MissingMember(current_user, data.pokemon_ids[1]))
                /\ UNCHANGED <<teams, members>>
           ELSE /\ teams' = (teams \ {team}) \cup {updated}
                /\ members' = IF IsNone(data.pokemon_ids) THEN members
                              ELSE members \cup NewMembers(members, team.id,
                                       pokedex_entry_ids(current_user, data.pokemon_ids[1]))
                /\ last' = Response("update_team", current_user, TeamReadStatus(200),
                                    team_id, data, <<>>)

\* An update that assigns the description of the body even when it is None
update_team_SetsNone(current_user, team_id, data) ==
    LET found == GetTeam(team_id)
        team == CHOOSE t \in found : TRUE
        named == IF IsNone(data.name) THEN team ELSE [team EXCEPT !.name = data.name[1]]
        updated == [named EXCEPT !.description = data.description]
        invalid == IF IsNone(data.pokemon_ids) THEN 0
                   ELSE ValidateMembers(current_user, data.pokemon_ids[1])
        kept == {m \in members : m.team_id # team.id}
    IN  /\ UNCHANGED <<users, inflight, now, entries, cache>>
        /\ IF found = {}
           THEN /\ last' = Response("update_team", current_user, 404, team_id, <<>>, <<>>)
                /\ UNCHANGED <<teams, members>>
           ELSE IF ~ensure_owner(team.trainer_id, current_user)
           THEN /\ last' = Response("update_team", current_user, 403, team_id, <<>>, <<>>)
                /\ UNCHANGED <<teams, members>>
           ELSE IF invalid # 0
           THEN \* the HTTPException leaves the handler before session.commit():
                \* the session is closed and its changes are rolled back
                /\ last' = Response("update_team", current_user, invalid, team_id, data,
                                    MissingMember(current_user, data.pokemon_ids[1]))
                /\ UNCHANGED <<teams, members>>
           ELSE /\ teams' = (teams \ {team}) \cup {updated}
                /\ members' = IF IsNone(data.pokemon_ids) THEN members
                              ELSE kept \cup NewMembers(kept, team.id,
                                       pokedex_entry_ids(current_user, data.pokemon_ids[1]))
                /\ last' = Response("update_team", current_user, TeamReadStatus(200),
                                    team_id, data, <<>>)

\* An update whose new name and description outlive a refused member list
update_team_Renames(current_user, team_id, data) ==
    LET found == GetTeam(team_id)
        team == CHOOSE t \in found : TRUE
        named == IF IsNone(data.name) THEN team ELSE [team EXCEPT !.name = data.name[1]]
        updated == IF IsNone(data.description) THEN named
                   ELSE [named EXCEPT !.description = data.description]
        invalid == IF IsNone(data.pokemon_ids) THEN 0
                   ELSE ValidateMembers(current_user, data.pokemon_ids[1])
        kept == {m \in members : m.team_id # team.id}
    IN  /\ UNCHANGED <<users, inflight, now, entries, cache>>
        /\ IF found = {}
           THEN /\ last' = Response("update_team", current_user, 404, team_id, <<>>, <<>>)
                /\ UNCHANGED <<teams, members>>
           ELSE IF ~ensure_owner(team.trainer_id, current_user)
           THEN /\ last' = Response("update_team", current_user, 403, team_id, <<>>, <<>>)
                /\ UNCHANGED <<teams, members>>
           ELSE IF invalid # 0
           THEN /\ last' = Response("update_team", current_user, invalid, team_id, data,
                                    MissingMember(current_user, data.pokemon_ids[1]))
                /\ teams' = (teams \ {team}) \cup {updated}
                /\ UNCHANGED members
           ELSE /\ teams' = (teams \ {team}) \cup {updated}
                /\ members' = IF IsNone(data.pokemon_ids) THEN members
                              ELSE kept \cup NewMembers(kept, team.id,
                                       pokedex_entry_ids(current_user, data.pokemon_ids[1]))
                /\ last' = Response("update_team", current_user, TeamReadStatus(200),
                                    team_id, data, <<>>)

\* PUT /api/v1/teams/{team_id}; a field of data that is None is <<>>
update_team(current_user, team_id, data) ==
    LET found == GetTeam(team_id)
        team == CHOOSE t \in found : TRUE
        named == IF IsNone(data.name) THEN team ELSE [team EXCEPT !.name = data.name[1]]
        updated == IF IsNone(data.description) THEN named
                   ELSE [named EXCEPT !.description = data.description]
        invalid == IF IsNone(data.pokemon_ids) THEN 0
                   ELSE ValidateMembers(current_user, data.pokemon_ids[1])
        kept == {m \in members : m.team_id # team.id}
    IN  /\ UNCHANGED <<users, inflight, now, entries, cache>>
        /\ IF found = {}
           THEN /\ last' = Response("update_team", current_user, 404, team_id, <<>>, <<>>)
                /\ UNCHANGED <<teams, members>>
           ELSE IF ~ensure_owner(team.trainer_id, current_user)
           THEN /\ last' = Response("update_team", current_user, 403, team_id, <<>>, <<>>)
                /\ UNCHANGED <<teams, members>>
           ELSE IF invalid # 0
           THEN \* the HTTPException leaves the handler before session.commit():
                \* the session is closed and its changes are rolled back
                /\ last' = Response("update_team", current_user, invalid, team_id, data,
                                    MissingMember(current_user, data.pokemon_ids[1]))
                /\ UNCHANGED <<teams, members>>
           ELSE /\ teams' = (teams \ {team}) \cup {updated}
                /\ members' = IF IsNone(data.pokemon_ids) THEN members
                              ELSE kept \cup NewMembers(kept, team.id,
                                       pokedex_entry_ids(current_user, data.pokemon_ids[1]))
                /\ last' = Response("update_team", current_user, TeamReadStatus(200),
                                    team_id, data, <<>>)

\* GET /api/v1/teams/{team_id}/export: the document lists the team's name,
\* its description and a line "idx. name (#pokemon_id)" per joined row
export_team(current_user, team_id) ==
    LET found == GetTeam(team_id)
        team == CHOOSE t \in found : TRUE
        results == TeamJoin(team_id)
        doc == [ name |-> team.name, description |-> team.description,
                 lines |-> [idx \in DOMAIN results |->
                              <<idx, results[idx].pokemon_name, results[idx].pokemon_id>>] ]
    IN  /\ UNCHANGED <<users, inflight, now, entries, teams, members, cache>>
        /\ IF found = {}
           THEN last' = Response("export_team", current_user, 404, team_id, <<>>, <<>>)
           ELSE IF ~ensure_owner(team.trainer_id, current_user)
           THEN last' = Response("export_team", current_user, 403, team_id, <<>>, <<>>)
           ELSE last' = Response("export_team", current_user, 200, team_id, <<>>, <<doc>>)

\* GET /api/v1/teams: a TeamRead is built for every team of the caller
list_teams(current_user) ==
    LET mine == {t \in teams : t.trainer_id = current_user}
    IN  /\ UNCHANGED <<users, inflight, now, entries, teams, members, cache>>
        /\ last' = Response("list_teams", current_user,
                            IF mine = {} THEN 200 ELSE TeamReadStatus(200),
                            0, <<>>, <<>>)

\* select(Team).where(Team.trainer_id == current_user.id): the teams listed
TeamsOf(current_user) == {t \in teams : t.trainer_id = current_user}

\* A delete that leaves the member rows of the team behind
delete_team_TeamOnly(current_user, team_id) ==
    LET found == GetTeam(team_id)
        team == CHOOSE t \in found : TRUE
    IN  /\ UNCHANGED <<users, inflight, now, entries, cache, members>>
        /\ IF found = {}
           THEN /\ last' = Response("delete_team", current_user, 404, team_id, <<>>, <<>>)
                /\ UNCHANGED teams
           ELSE IF ~ensure_owner(team.trainer_id, current_user)
           THEN /\ last' = Response("delete_team", current_user, 403, team_id, <<>>, <<>>)
                /\ UNCHANGED teams
           ELSE /\ teams' = teams \ {team}
                /\ last' = Response("delete_team", current_user, 204, team_id, <<>>, <<>>)

\* delete(trainer, team_id): cascades delete of members, then the team; a
\* missing team is answered 404 and another trainer's team 403
delete_team(current_user, team_id) ==
    LET found == GetTeam(team_id)
        team == CHOOSE t \in found : TRUE
    IN  /\ UNCHANGED <<users, inflight, now, entries, cache>>
        /\ IF found = {}
           THEN /\ last' = Response("delete_team", current_user, 404, team_id, <<>>, <<>>)
                /\ UNCHANGED <<teams, members>>
           ELSE IF ~ensure_owner(team.trainer_id, current_user)
           THEN /\ last' = Response("delete_team", current_user, 403, team_id, <<>>, <<>>)
                /\ UNCHANGED <<teams, members>>
           ELSE /\ members' = {m \in members : m.team_id # team.id}
                /\ teams' = teams \ {team}
                /\ last' = Response("delete_team", current_user, 204, team_id, <<>>, <<>>)

----------------------------------------------------------------------------
(* app/auth.py and app/routers/auth.py *)

\* settings.secret_key, and the key of a token somebody else signed
SECRET_KEY == "secret_key"
ForgedKey == "forged"

\* settings.access_token_expire_minutes, in ticks of the clock
TokenLife == 1

\* what clients send as username, email and password
UserNames == {"ash", "misty", "brock", "gary"}
Emails == {"ash@kanto.io", "misty@kanto.io", "brock@kanto.io", "gary@kanto.io"}
Passwords == {"pikachu", "starmie"}

\* select(User).where(User.username == username) ... .first()
get_user_by_username(username) ==
    LET rows == {u \in users : u.username = username}
    IN  IF rows = {} THEN <<>>
        ELSE <<CHOOSE u \in rows : \A o \in rows : u.id <= o.id>>

\* An authentication that answers the user whatever the password
authenticate_user_AnyPassword(username, password) ==
    get_user_by_username(username)

\* authenticate_user: the user, or None (<<>>)
authenticate_user(username, password) ==
    LET user == get_user_by_username(username)
    IN  IF IsNone(user) THEN <<>>
        ELSE IF ~verify_password(password, user[1].hashed_password) THEN <<>>
        ELSE user

\* create_access_token / jwt.encode: the claims, signed with a key
create_access_token(sub, expires_delta) ==
    [sub |-> <<sub>>, exp |-> now + expires_delta, key |-> SECRET_KEY]

\* the HTTPException of a failed login
LoginRefused ==
    [ status |-> 401, detail |-> "Incorrect username or password",
      headers |-> <<"WWW-Authenticate", "Bearer">> ]

\* POST /api/v1/auth/login
login_for_access_token(username, password) ==
    LET user == authenticate_user(username, password)
        form == [username |-> username, password |-> password]
    IN  /\ UNCHANGED <<now, entries, teams, members, cache, users, inflight>>
        /\ IF IsNone(user)
           THEN last' = Response("login", 0, LoginRefused.status, 0, form,
                                 <<[detail |-> LoginRefused.detail,
                                    headers |-> LoginRefused.headers]>>)
           ELSE last' = Response("login", user[1].id, 200, 0, form,
                                 <<[access_token |->
                                       create_access_token(user[1].username, TokenLife),
                                    token_type |-> "bearer"]>>)

\* A register that looks for the username only
register_user_NameOnly(username, email, password) ==
    LET existing_user == {u \in users : u.username = username}
        user == UserRow(NextId(users), username, email, password, now)
        user_in == [username |-> username, email |-> email]
    IN  /\ UNCHANGED <<now, entries, teams, members, cache, inflight>>
        /\ IF existing_user # {}
           THEN /\ last' = Response("register", 0, 400, 0, user_in, <<>>)
                /\ UNCHANGED users
           ELSE /\ users' = users \cup {user}
                /\ last' = Response("register", user.id, 201, user.id, user_in, <<>>)

\* POST /api/v1/auth/register
register_user(username, email, password) ==
    LET existing_user == {u \in users : u.username = username \/ u.email = email}
        user == UserRow(NextId(users), username, email, password, now)
        user_in == [username |-> username, email |-> email]
    IN  /\ UNCHANGED <<now, entries, teams, members, cache, inflight>>
        /\ IF existing_user # {}
           THEN /\ last' = Response("register", 0, 400, 0, user_in, <<>>)
                /\ UNCHANGED users
           ELSE /\ users' = users \cup {user}
                /\ last' = Response("register", user.id, 201, user.id, user_in, <<>>)

\* the HTTPExceptions of get_current_user and of oauth2_scheme
credentials_exception ==
    [status |-> 401, detail |-> "Could not validate credentials"]
NotAuthenticated == [status |-> 401, detail |-> "Not authenticated"]
InactiveUser == [status |-> 400, detail |-> "Inactive user"]

\* jwt.decode raises a JWTError for a token signed with another key and for
\* a token whose exp lies before the clock
JWTError(token) == token.key # SECRET_KEY \/ token.exp < now

\* A resolution that does not look at the active flag
get_current_user_Inactive(token) ==
    IF IsNone(token) THEN [error |-> <<NotAuthenticated>>, user |-> <<>>]
    ELSE IF JWTError(token[1]) \/ IsNone(token[1].sub)
    THEN [error |-> <<credentials_exception>>, user |-> <<>>]
    ELSE IF IsNone(get_user_by_username(token[1].sub[1]))
    THEN [error |-> <<credentials_exception>>, user |-> <<>>]
    ELSE [error |-> <<>>, user |-> get_user_by_username(token[1].sub[1])]

\* get_current_user behind oauth2_scheme: the user of a bearer token, or the
\* HTTPException raised; the token of a request without one is <<>>
get_current_user(token) ==
    IF IsNone(token) THEN [error |-> <<NotAuthenticated>>, user |-> <<>>]
    ELSE IF JWTError(token[1]) \/ IsNone(token[1].sub)
    THEN [error |-> <<credentials_exception>>, user |-> <<>>]
    ELSE IF IsNone(get_user_by_username(token[1].sub[1]))
    THEN [error |-> <<credentials_exception>>, user |-> <<>>]
    ELSE IF ~get_user_by_username(token[1].sub[1])[1].is_active
    THEN [error |-> <<InactiveUser>>, user |-> <<>>]
    ELSE [error |-> <<>>, user |-> get_user_by_username(token[1].sub[1])]

\* current_user: User = Depends(get_current_user): the dependency resolved
\* the token to a user, and the id of that user
Authenticated(token) == IsNone(get_current_user(token).error)
CurrentUser(token) == get_current_user(token).user[1].id

\* the request of a token the dependency refuses is answered with the error
\* of get_current_user before the handler runs
Refused(op, token) ==
    LET resolved == get_current_user(token)
    IN  /\ ~IsNone(resolved.error)
        /\ last' = Response(op, 0, resolved.error[1].status, 0, [token |-> token],
                            <<resolved.error[1].detail>>)
        /\ UNCHANGED <<now, entries, teams, members, cache, users, inflight>>

----------------------------------------------------------------------------
(* Requests *)

\* update bodies over the fields S: every field of S is set, to null or a value
Restrict(f, S) == [x \in S |-> f[x]]
UpdateBodies(fields) ==
    { Restrict(full, S) :
        full \in [ nickname : Opt(NickNames), notes : Opt(NoteTexts),
                   is_captured : Opt(BOOLEAN), favorite : Opt(BOOLEAN) ],
        S \in SUBSET fields }

\* A caller of US adds a Pokemon of PS.  A request that would store a row is
\* taken only while the store has an id up to MaxId to give.
Add(US, PS, nicks, notes, caps, favs) ==
    \E u \in US, p \in PS, n \in nicks, t \in notes, c \in caps, f \in favs :
        \E outcome \in UpstreamOutcomes(p) :
            /\ \/ NextId(entries) <= MaxId
               \/ ExistingEntry(u, p) # {}
               \/ outcome # "ok"
            /\ add_pokemon_to_pokedex(u, CreateBody(p, n, t, c, f), outcome)

Patch(US, bodies) ==
    \E u \in US, id \in PathIds, body \in bodies :
        update_pokedex_entry(u, id, body)

Delete(US) ==
    \E u \in US, id \in PathIds : delete_pokedex_entry(u, id)

List(US, captureds, favorites, sorts, orders) ==
    \E u \in US, c \in captureds, f \in favorites, k \in sorts, o \in orders,
       limit \in 1 .. MaxLimit, offset \in 0 .. MaxOffset :
        list_pokedex(u, c, f, k, o, limit, offset)

Export(US, captureds, favorites) ==
    \E u \in US, c \in captureds, f \in favorites : export_pokedex(u, c, f)

\* a caller of US asks for the statistics; the lookups end in `outcomes`
StatsOf(US, outcomes) ==
    \E u \in US, outcome \in outcomes :
        \E s \in Scans(Filtered(u, <<>>, <<>>)) :
            \E fetched \in 0 .. Len(s) : get_pokedex_stats(u, s, fetched, outcome)

Stats(US) == StatsOf(US, {"ok", "404", "status", "network"})

----------------------------------------------------------------------------
(* Spec: the collection of two users under add, patch of the capture flag *)
(* and delete, at one instant.                                            *)

AddPokemon == Add(Users, {1, 2, UnknownId}, {<<>>}, {<<>>}, {FALSE}, {FALSE})
PatchCaptured == Patch(Users, {[is_captured |-> <<TRUE>>]})
DeleteEntry == Delete(Users)

Next ==
    \/ AddPokemon
    \/ PatchCaptured
    \/ DeleteEntry

Spec == Init /\ [][Next]_vars

----------------------------------------------------------------------------
(* SpecCapture: one user's collection over time, under add, patch of the  *)
(* capture flag by either user, and delete.                               *)

CaptureAdd == Add({1}, {1, 2}, {<<>>}, {<<>>}, BOOLEAN, {FALSE})
CapturePatch == Patch(Users, {[is_captured |-> <<c>>] : c \in BOOLEAN})
CaptureDelete == Delete({1})

NextCapture ==
    \/ Tick
    \/ CaptureAdd
    \/ CapturePatch
    \/ CaptureDelete

SpecCapture == Init /\ [][NextCapture]_vars

----------------------------------------------------------------------------
(* SpecTeams: user 1 collects Pokemon and builds teams of them; both users *)
(* patch and delete entries and update, export and list teams.            *)

\* at most MaxTeams team rows and MaxMemberId member row ids are handed out
MaxTeams == 1
MaxMemberId == 4

\* A caller of US creates a team of one of the member lists.  A request that
\* would store rows is taken only while the store has ids to give.
CreateTeam(US, lists) ==
    \E u \in US, ids \in lists :
        /\ \/ ValidateMembers(u, ids) # 0
           \/ /\ NextId(teams) <= MaxTeams
              /\ NextId(members) + Len(ids) - 1 <= MaxMemberId
        /\ create_team(u, [name |-> "My Team", description |-> <<>>, pokemon_ids |-> ids])

UpdateTeam(US, bodies) ==
    \E u \in US, team_id \in 1 .. (MaxTeams + 1), body \in bodies :
        /\ IF IsNone(body.pokemon_ids) THEN TRUE
           ELSE IF ValidateMembers(u, body.pokemon_ids[1]) # 0 THEN TRUE
           ELSE NextId({m \in members : m.team_id # team_id})
                    + Len(body.pokemon_ids[1]) - 1 <= MaxMemberId
        /\ update_team(u, team_id, body)

ExportTeam(US) ==
    \E u \in US, team_id \in 1 .. (MaxTeams + 1) : export_team(u, team_id)

ListTeams(US) == \E u \in US : list_teams(u)

TeamUpdateBody(name, description, ids) ==
    [name |-> name, description |-> description, pokemon_ids |-> ids]

TeamsAdd ==
    \/ Add({1}, {1, 2}, {<<>>}, {<<>>}, {TRUE}, {FALSE})
    \/ Add({2}, {1}, {<<>>}, {<<>>}, {TRUE}, {FALSE})
TeamsPatch == Patch(Users, {[favorite |-> <<TRUE>>]})
TeamsDelete == Delete({2})
TeamsCreate == CreateTeam({1}, {<<1>>, <<1, 2>>})
TeamsUpdate ==
    UpdateTeam(Users, { TeamUpdateBody(<<"Updated Team">>, <<>>, <<>>),
                        TeamUpdateBody(<<>>, <<>>, <<<<2, 1>>>>) })
TeamsExport == ExportTeam(Users)
TeamsList == ListTeams(Users)

NextTeams ==
    \/ TeamsAdd
    \/ TeamsPatch
    \/ TeamsDelete
    \/ TeamsCreate
    \/ TeamsUpdate
    \/ TeamsExport
    \/ TeamsList

SpecTeams == Init /\ [][NextTeams]_vars

----------------------------------------------------------------------------
(* SpecPatch: user 1 adds two Pokemon and patches them with every body over *)
(* two of the four fields; user 2 patches them too.                         *)

PatchAdd == Add({1}, {1, 2}, {<<n>> : n \in NickNames}, {<<>>}, BOOLEAN, {FALSE})
PatchEntry ==
    Patch(Users, UpdateBodies({"nickname", "notes"})
                   \cup UpdateBodies({"is_captured", "favorite"})
                   \cup UpdateBodies({"notes", "is_captured"}))

NextPatch ==
    \/ PatchAdd
    \/ PatchEntry

SpecPatch == Init /\ [][NextPatch]_vars

----------------------------------------------------------------------------
(* SpecList: user 1 holds up to three Pokemon, one of them a favorite, and *)
(* user 2 one; user 1 lists and exports the collection.                    *)

ListAdd ==
    \/ Add({1}, {1}, {<<>>}, {<<>>}, BOOLEAN, {FALSE})
    \/ Add({1}, {4}, {<<>>}, {<<t>> : t \in NoteTexts}, {FALSE}, {FALSE})
    \/ Add({1}, {2}, {<<n>> : n \in NickNames}, {<<>>}, {TRUE}, {TRUE})
    \/ Add({2}, {1}, {<<>>}, {<<>>}, {TRUE}, {FALSE})
ListEntries ==
    \/ List({1}, {<<>>, <<TRUE>>}, {<<>>}, {"capture_date"}, Orders)
    \/ List({1}, {<<>>}, {<<>>}, {"pokemon_id", "pokemon_name"}, Orders)
    \/ List({1}, {<<>>, <<FALSE>>}, {<<TRUE>>}, {"pokemon_name"}, {"desc"})
ListExport == Export({1}, Opt(BOOLEAN), {<<>>, <<TRUE>>})

NextList ==
    \/ ListAdd
    \/ ListEntries
    \/ ListExport

SpecList == Init /\ [][NextList]_vars

----------------------------------------------------------------------------
(* SpecStats: both users hold Pokemon and ask for their statistics; the    *)
(* lookups of the statistics fill the cache or fail.                       *)

StatsAdd ==
    \/ Add({1}, {1}, {<<>>}, {<<>>}, BOOLEAN, BOOLEAN)
    \/ Add({1}, {2, 4}, {<<>>}, {<<>>}, BOOLEAN, {FALSE})
    \/ Add({2}, {1}, {<<>>}, {<<>>}, BOOLEAN, {FALSE})
StatsGet == Stats(Users)

NextStats ==
    \/ StatsAdd
    \/ StatsGet

SpecStats == Init /\ [][NextStats]_vars

----------------------------------------------------------------------------
(* SpecStreak: user 1 captures up to three Pokemon on the days 0 .. MaxDay *)
(* and asks for the statistics, whose lookups succeed.                    *)

\* time passes between requests, up to the first instant of day MaxDay
Elapse ==
    /\ now < MaxDay * TicksPerDay
    /\ now' = now + 1
    /\ UNCHANGED <<entries, teams, members, cache, last, users, inflight>>

\* user 1 captures Pokemon 1, then 2, then 4
StreakAdd ==
    \/ Add({1}, {1}, {<<>>}, {<<>>}, {TRUE}, {FALSE})
    \/ (\E e \in entries : e.pokemon_id = 1)
         /\ Add({1}, {2}, {<<>>}, {<<>>}, {TRUE}, {FALSE})
    \/ (\E e \in entries : e.pokemon_id = 2)
         /\ Add({1}, {4}, {<<>>}, {<<>>}, {TRUE}, {FALSE})
StreakStats == StatsOf({1}, {"ok"})

NextStreak ==
    \/ Elapse
    \/ StreakAdd
    \/ StreakStats

SpecStreak == Init /\ [][NextStreak]_vars

----------------------------------------------------------------------------
(* SpecCompose: user 2, then user 1 collect Pokemon and compose teams of    *)
(* them; user 1 posts valid and invalid member lists and updates teams.    *)

\* at most MaxSquads team rows and MaxSlotId member row ids are handed out
MaxSquads == 2
MaxSlotId == 4

\* a member list of one more than MaxTeamSize distinct ids
LongList == [i \in 1 .. (MaxTeamSize + 1) |-> i]

TeamCreateBody(name, description, ids) ==
    [name |-> name, description |-> description, pokemon_ids |-> ids]

\* the caller u posts a team; a request that would store rows is taken only
\* while the store has ids to give
ComposeTeam(u, name, ids) ==
    /\ \/ ValidateMembers(u, ids) # 0
       \/ /\ NextId(teams) <= MaxSquads
          /\ NextId(members) + Len(ids) - 1 <= MaxSlotId
    /\ create_team(u, TeamCreateBody(name, <<>>, ids))

\* the caller u puts a body to a team
RecomposeTeam(u, team_id, body) ==
    /\ IF IsNone(body.pokemon_ids) THEN TRUE
       ELSE IF ValidateMembers(u, body.pokemon_ids[1]) # 0 THEN TRUE
       ELSE NextId({m \in members : m.team_id # team_id})
                + Len(body.pokemon_ids[1]) - 1 <= MaxSlotId
    /\ update_team(u, team_id, body)

ComposeAdd ==
    \/ Add({2}, {1}, {<<>>}, {<<>>}, {TRUE}, {FALSE})
    \/ (\E e \in entries : e.owner_id = 2)
         /\ Add({1}, {1}, {<<>>}, {<<>>}, {TRUE}, {FALSE})
    \/ (\E e \in entries : e.owner_id = 1)
         /\ Add({1}, {2}, {<<>>}, {<<>>}, {TRUE}, {FALSE})
ComposeCreate ==
    \/ \E ids \in {<<>>, LongList, <<1, 1>>, <<1>>, <<1, 2>>} :
           ComposeTeam(1, "My Team", ids)
    \/ ComposeTeam(2, "Rivals", <<1>>)
ComposeUpdate ==
    \E team_id \in 1 .. MaxSquads :
        \E body \in { TeamUpdateBody(<<"Updated Team">>, <<>>, <<>>),
                      TeamUpdateBody(<<>>, <<"rain team">>, <<<<2, 1>>>>),
                      TeamUpdateBody(<<"Sun Team">>, <<"sun team">>, <<<<1, UnknownId>>>>) } :
            RecomposeTeam(1, team_id, body)

NextCompose ==
    \/ ComposeAdd
    \/ ComposeCreate
    \/ ComposeUpdate

SpecCompose == Init /\ [][NextCompose]_vars

----------------------------------------------------------------------------
(* SpecDisband: users 1 and 2 collect Pokemon and compose teams; user 1    *)
(* deletes collection entries, both users delete and list teams.          *)

DisbandAdd ==
    \/ Add({1}, {1}, {<<>>}, {<<>>}, {TRUE}, {FALSE})
    \/ Add({2}, {1}, {<<>>}, {<<>>}, {TRUE}, {FALSE})
DisbandDeleteEntry == Delete({1})
DisbandCreate ==
    \/ ComposeTeam(1, "My Team", <<1>>)
    \/ ComposeTeam(2, "Rivals", <<1>>)
DisbandDeleteTeam ==
    \E u \in Users, team_id \in 1 .. (MaxSquads + 1) : delete_team(u, team_id)
DisbandList == ListTeams(Users)

NextDisband ==
    \/ DisbandAdd
    \/ DisbandDeleteEntry
    \/ DisbandCreate
    \/ DisbandDeleteTeam
    \/ DisbandList

SpecDisband == Init /\ [][NextDisband]_vars

----------------------------------------------------------------------------
(* SpecAccounts: clients register and log in with known and unknown names  *)
(* and right and wrong passwords.                                          *)

\* at most MaxUsers user rows
MaxUsers == 4

AccountsRegister ==
    \E username \in UserNames, email \in Emails, password \in Passwords :
        /\ \/ NextId(users) <= MaxUsers
           \/ \E u \in users : u.username = username \/ u.email = email
        /\ register_user(username, email, password)

AccountsLogin ==
    \E username \in UserNames, password \in Passwords :
        login_for_access_token(username, password)

NextAccounts ==
    \/ AccountsRegister
    \/ AccountsLogin

SpecAccounts == Init /\ [][NextAccounts]_vars

----------------------------------------------------------------------------
(* SpecAuth: an administrator deactivates users, time passes, and clients  *)
(* send protected requests with bearer tokens of every kind.               *)

\* the bearer tokens of the requests: none, or claims with or without a
\* subject, of a short or a long life, signed with the key or forged
TokenSpace ==
    {<<>>} \cup
    { <<[sub |-> sub, exp |-> exp, key |-> key]>> :
        sub \in Opt({"ash", "brock"}),
        exp \in {TokenLife, MaxTime + TokenLife},
        key \in {SECRET_KEY, ForgedKey} }

\* is_active of a user row is cleared in the database, by an administrator
Deactivate ==
    /\ \E u \in users :
          /\ u.is_active
          /\ users' = (users \ {u}) \cup {[u EXCEPT !.is_active = FALSE]}
          /\ last' = Response("deactivate", 0, 0, u.id, <<>>, <<>>)
    /\ UNCHANGED <<now, entries, teams, members, cache, inflight>>

AuthAdd ==
    \E token \in TokenSpace :
        /\ NextId(entries) <= MaxId
        /\ IF Authenticated(token)
           THEN add_pokemon_to_pokedex(CurrentUser(token),
                    CreateBody(1, <<>>, <<>>, FALSE, FALSE), "ok")
           ELSE Refused("add", token)

AuthDelete ==
    \E token \in TokenSpace :
        IF Authenticated(token)
        THEN delete_pokedex_entry(CurrentUser(token), 1)
        ELSE Refused("delete", token)

AuthCreateTeam ==
    \E token \in TokenSpace :
        IF Authenticated(token)
        THEN ComposeTeam(CurrentUser(token), "My Team", <<1>>)
        ELSE Refused("create_team", token)

NextAuth ==
    \/ Tick
    \/ Deactivate
    \/ AuthAdd
    \/ AuthDelete
    \/ AuthCreateTeam

SpecAuth == Init /\ [][NextAuth]_vars

----------------------------------------------------------------------------
(* SpecCatalog: clients get Pokemon of the catalog by id and by name, up   *)
(* to MaxGets gets at a time; the upstream answers or fails.               *)

\* at most MaxGets calls of get_pokemon are in flight
MaxGets == 2

CatalogBegin ==
    \E rid \in 1 .. MaxGets, identifier \in Identifiers :
        get_pokemon_begin(rid, identifier)

CatalogEnd ==
    \E r \in inflight : \E outcome \in GetOutcomes(r.identifier) :
        get_pokemon_end(r, outcome)

NextCatalog ==
    \/ CatalogBegin
    \/ CatalogEnd

SpecCatalog == Init /\ [][NextCatalog]_vars

----------------------------------------------------------------------------
(* SpecText: user 1 adds Pokemon and patches entries with nicknames and    *)
(* notes at and above the declared lengths.                                *)

TextAdd ==
    Add({1}, {1, 2}, {<<>>, <<Text50>>, <<LongNickname>>},
        {<<>>, <<LongNotes>>}, {FALSE}, {FALSE})

TextPatch ==
    Patch({1}, { [nickname |-> <<Text50>>], [nickname |-> <<LongNickname>>],
                 [notes |-> <<Text500>>], [notes |-> <<LongNotes>>] })

NextText ==
    \/ TextAdd
    \/ TextPatch

SpecText == Init /\ [][NextText]_vars

----------------------------------------------------------------------------
(* SpecRelease: user 1 adds Pokemon, captured or not, patches the capture  *)
(* flag both ways and asks for the statistics, whose lookups succeed.      *)

ReleaseAdd == Add({1}, {1, 2}, {<<>>}, {<<>>}, BOOLEAN, {FALSE})
ReleasePatch == Patch({1}, {[is_captured |-> <<c>>] : c \in BOOLEAN})
ReleaseStats == StatsOf({1}, {"ok"})

NextRelease ==
    \/ ReleaseAdd
    \/ ReleasePatch
    \/ ReleaseStats

SpecRelease == Init /\ [][NextRelease]_vars

----------------------------------------------------------------------------
(* SpecRace: users 1 and 2 add Pokemon in requests that run side by side,  *)
(* up to MaxAdds at a time.                                                *)

\* at most MaxAdds add requests are between their check and their commit
MaxAdds == 2

RaceCheck ==
    \E rid \in 1 .. MaxAdds, u \in Users, p \in {1, 2} :
        add_pokemon_to_pokedex_check(rid, u, CreateBody(p, <<>>, <<>>, FALSE, FALSE))

RaceCommit ==
    \E r \in inflight : \E outcome \in UpstreamOutcomes(r.data.pokemon_id) :
        /\ outcome = "ok" => NextId(entries) <= MaxId
        /\ add_pokemon_to_pokedex_commit(r, outcome)

NextRace ==
    \/ RaceCheck
    \/ RaceCommit

SpecRace == Init /\ [][NextRace]_vars

----------------------------------------------------------------------------
(* Properties of the collection, checked under Spec *)

\* a step that handles a request `op` (a request never moves the clock)
Handled(op) == now' = now /\ last'.op = op

OwnerHolds(u, p) == \E e \in entries : e.owner_id = u /\ e.pokemon_id = p

\* C1: in every reachable state no two stored collection entries have the
\* same (owner_id, pokemon_id) pair.
C1_UniqueOwnerPokemon ==
    \A e1 \in entries, e2 \in entries :
        (e1.owner_id = e2.owner_id /\ e1.pokemon_id = e2.pokemon_id) => e1 = e2

\* a duplicate add was just refused while both users hold entries
C1_Witness ==
    /\ last.op = "add" /\ last.status = 400
    /\ Cardinality(entries) = 3
    /\ \A u \in Users : \E e \in entries : e.owner_id = u

\* an add directly after a successful add of the same Pokemon by the same
\* user is refused with 400 and stores nothing
SecondAddRefused ==
    (/\ last.op = "add" /\ last.status = 201
     /\ Handled("add") /\ last'.user = last.user /\ last'.id = last.id)
    => (last'.status = 400 /\ entries' = entries)

\* C2 as claimed: for any owner and any pokemon_id not yet in the owner's
\* collection, the first of two consecutive adds succeeds (201), the second
\* is refused as a duplicate (400) and leaves the stored entries as they were.
C2_Original ==
    [][ /\ (Handled("add") /\ ~OwnerHolds(last'.user, last'.id)) => last'.status = 201
        /\ SecondAddRefused ]_vars

\* C2 as amended: the first add succeeds when the catalog lookup succeeds
\* (and only then: a failed lookup answers 404, 502 or 503 and stores
\* nothing); after a successful add the second add of the same pokemon_id is
\* refused with 400 and leaves the stored entries as they were.
C2_AddTwice ==
    [][ /\ (Handled("add") /\ ~OwnerHolds(last'.user, last'.id))
            => /\ last'.data = <<"ok">> => last'.status = 201
               /\ last'.data # <<"ok">> => last'.status \in {404, 502, 503}
               /\ (last'.status = 201) <=>
                    (\E e \in entries' \ entries :
                        e.owner_id = last'.user /\ e.pokemon_id = last'.id)
        /\ SecondAddRefused ]_vars

\* the second of two adds of the same Pokemon has been refused
C2_Witness ==
    /\ last.op = "add" /\ last.status = 400
    /\ \E e \in entries : /\ e.owner_id = last.user /\ e.pokemon_id = last.id
                          /\ e.id = NextId(entries) - 1

\* C3: an add that passes the duplicate check and whose catalog lookup fails
\* answers 404 (upstream 404), 502 (another upstream status) or 503 (network
\* failure) and stores no entry.
C3_LookupFailureStoresNothing ==
    [][ (Handled("add") /\ last'.data # <<>> /\ last'.data # <<"ok">>)
        => /\ entries' = entries
           /\ last'.status = (IF last'.data = <<"404">> THEN 404
                              ELSE IF last'.data = <<"status">> THEN 502 ELSE 503)
           /\ last'.result = <<>> ]_vars

\* an add of a Pokemon the caller does not hold failed in the lookup
C3_Witness ==
    /\ last.op = "add" /\ last.status \in {502, 503}
    /\ ~OwnerHolds(last.user, last.id)
    /\ entries # {}

EntryIds == {e.id : e \in entries}

\* a successful delete removes exactly the caller's entry with the id of the
\* path: afterwards no entry has the id, every list, the statistics and the
\* export of the owner are those of the remaining entries, and an add of the
\* Pokemon by the owner whose lookup ends in one of `outcomes` answers 201
DeleteRemoves(outcomes) ==
    (Handled("delete") /\ last'.status = 204)
    => \E e \in entries :
         /\ e.id = last'.id /\ e.owner_id = last'.user
         /\ entries' = entries \ {e}
         /\ GetEntry(e.id)' = {}
         /\ \A outcome \in UpstreamOutcomes(e.pokemon_id) \cap outcomes :
              add_status(e.owner_id, e.pokemon_id, outcome)' = 201
         /\ \A c \in Opt(BOOLEAN), k \in SortKeys, o \in Orders :
              \A r \in ListResults(e.owner_id, c, <<>>, k, o, MaxId + 1, 0)' :
                 \A i \in DOMAIN r : r[i].id # e.id
         /\ \A doc \in ExportDocs(e.owner_id, <<>>, <<>>)' :
              \A i \in DOMAIN doc.rows : doc.rows[i][1] # ToString(e.id)
         /\ \A sc \in Scans(Filtered(e.owner_id, <<>>, <<>>))' :
              /\ PokedexStats(sc)'.total_pokemon
                   = Cardinality(Filtered(e.owner_id, <<>>, <<>>)) - 1
              /\ PokedexStats(sc)'.captured
                   = Cardinality(Filtered(e.owner_id, <<TRUE>>, <<>>))
                       - (IF e.is_captured THEN 1 ELSE 0)

\* a patch or delete of an id no entry has answers 404 and changes nothing
MissingIdNotFound ==
    ((Handled("patch") \/ Handled("delete")) /\ GetEntry(last'.id) = {})
    => (last'.status = 404 /\ entries' = entries)

\* an id comes to name an entry only by a successful add
IdsOnlyByAdd ==
    (EntryIds' \ EntryIds # {}) => (Handled("add") /\ last'.status = 201)

\* C7 as claimed: after a successful delete of an entry by its owner the
\* entry no longer exists: any later patch or delete with that id answers
\* 404 (so the id deleted by the previous request names no entry after
\* this request either), the entry is absent from list, stats and export, all
\* other entries are unchanged, and an add of the same Pokemon by the same
\* owner succeeds again.
C7_Original ==
    [][ /\ DeleteRemoves({"ok", "404", "status", "network"})
        /\ MissingIdNotFound
        /\ (last.op = "delete" /\ last.status = 204)
             => \A e \in entries' : e.id # last.id ]_vars

\* C7 as amended: after a successful delete of an entry by its owner the
\* entry no longer exists: a patch or delete with that id answers 404 as long
\* as no later successful add has stored an entry under the same id, the
\* entry is absent from list, stats and export, all other entries are
\* unchanged, and an add of the same Pokemon by the same owner succeeds again
\* when the catalog lookup succeeds.
C7_DeleteRemoves ==
    [][ /\ DeleteRemoves({"ok"})
        /\ MissingIdNotFound
        /\ IdsOnlyByAdd ]_vars

\* the owner has just deleted an entry while both users hold others
C7_Witness ==
    /\ last.op = "delete" /\ last.status = 204
    /\ GetEntry(last.id) = {}
    /\ \A u \in Users : \E e \in entries : e.owner_id = u

----------------------------------------------------------------------------
(* Properties of capture_date, checked under SpecCapture *)

\* the request of this step is a successful patch of row `id` that supplies
\* is_captured = true
PatchesCapturedTrue(id) ==
    /\ Handled("patch") /\ last'.status = 200 /\ last'.id = id
    /\ "is_captured" \in DOMAIN last'.data
    /\ last'.data["is_captured"] = <<TRUE>>

\* C4: capture_date is set exactly once.  A new entry has capture_date = the
\* time of the add when added captured, null otherwise; a null capture_date
\* becomes non-null only by a patch that sets is_captured true, and then it is
\* the time of that patch; a non-null capture_date is never changed or cleared
\* by any later request.
C4_CaptureDateSetOnce ==
    [][ /\ \A e \in entries, f \in entries' :
             e.id = f.id =>
               /\ ~IsNone(e.capture_date) => f.capture_date = e.capture_date
               /\ (IsNone(e.capture_date) /\ ~IsNone(f.capture_date))
                    => (PatchesCapturedTrue(e.id) /\ f.capture_date = <<now>>)
               /\ (IsNone(e.capture_date) /\ PatchesCapturedTrue(e.id))
                    => f.capture_date = <<now>>
        /\ \A f \in entries' :
             (\A e \in entries : e.id # f.id) =>
               f.capture_date = (IF f.is_captured THEN <<now>> ELSE <<>>) ]_vars

\* an entry captured at an earlier time has just been patched to captured
\* again, and an entry patched back to not captured still carries its date
C4_Witness ==
    /\ last.op = "patch" /\ last.status = 200
    /\ last.data = [is_captured |-> <<TRUE>>]
    /\ \E e \in entries : /\ e.id = last.id /\ e.is_captured
                          /\ ~IsNone(e.capture_date) /\ e.capture_date[1] < now
    /\ \E e \in entries : ~e.is_captured /\ ~IsNone(e.capture_date)

----------------------------------------------------------------------------
(* Properties of ownership, checked under SpecTeams *)

StoreUnchanged == entries' = entries /\ teams' = teams /\ members' = members

\* the answer of this step to a request on the row set `found` (the rows with
\* the id of the path): 404 and no change when there is none, 403 and no
\* change when the row is another user's
MissingOrForeign(found, owner(_)) ==
    /\ found = {} => (last'.status = 404 /\ StoreUnchanged)
    /\ (\E r \in found : owner(r) # last'.user)
         => (last'.status = 403 /\ StoreUnchanged)

EntryOwner(e) == e.owner_id
TeamOwner(t) == t.trainer_id

\* C5: for every caller, patch-entry and delete-entry answer 404 when the
\* entry id does not exist and 403 when the entry belongs to another user,
\* update-team and export-team answer 404 when the team id does not exist and
\* 403 when the team belongs to another user; in all these cases no stored
\* entry, team or member changes.
C5_MissingOrForeign ==
    [][ /\ (Handled("patch") \/ Handled("delete"))
            => MissingOrForeign(GetEntry(last'.id), EntryOwner)
        /\ (Handled("update_team") \/ Handled("export_team"))
            => MissingOrForeign(GetTeam(last'.id), TeamOwner) ]_vars

\* user 2 has just been refused the update of the two-member team of user 1
C5_Witness ==
    /\ last.op = "update_team" /\ last.status = 403 /\ last.user = 2
    /\ \E t \in teams : /\ t.id = last.id /\ t.trainer_id = 1
                        /\ Cardinality({m \in members : m.team_id = t.id}) = 2

----------------------------------------------------------------------------
(* Properties of patch, checked under SpecPatch *)

\* the columns of an entry no request body can name
FixedFields ==
    {"id", "owner_id", "pokemon_id", "pokemon_name", "pokemon_sprite", "created_at"}

\* the value a supplied field of a body gives a column
Supplied(body, f) == IF f \in NotNullFields THEN body[f][1] ELSE body[f]

\* C6: a successful patch changes only the supplied fields among nickname,
\* notes, is_captured and favorite (and capture_date, only when is_captured
\* is supplied): each supplied field takes the supplied value, every
\* unsupplied one keeps its value, id, owner_id, pokemon_id, pokemon_name,
\* pokemon_sprite and created_at do not change, and no other entry changes.
C6_PatchFrame ==
    [][ (Handled("patch") /\ last'.status = 200)
        => \E e \in entries, f \in entries' :
             /\ e.id = last'.id /\ f.id = e.id
             /\ entries' \ {f} = entries \ {e}
             /\ \A c \in FixedFields : f[c] = e[c]
             /\ \A c \in UpdateFields \ DOMAIN last'.data : f[c] = e[c]
             /\ \A c \in DOMAIN last'.data : f[c] = Supplied(last'.data, c)
             /\ "is_captured" \notin DOMAIN last'.data
                  => f.capture_date = e.capture_date ]_vars

\* a patch of the notes alone has just succeeded on an entry that has a
\* nickname, is captured and has a capture date, next to another entry
C6_Witness ==
    /\ last.op = "patch" /\ last.status = 200
    /\ DOMAIN last.data = {"notes"}
    /\ \E e \in entries : /\ e.id = last.id /\ e.nickname # <<>> /\ e.notes # <<>>
                          /\ e.is_captured /\ e.capture_date # <<>>
    /\ Cardinality(entries) = 2

----------------------------------------------------------------------------
(* Properties of list, checked under SpecList *)

\* the entries a list of caller u with query q has to choose from
Matching(u, q) ==
    {e \in entries :
        /\ e.owner_id = u
        /\ q.captured = <<>> \/ e.is_captured = q.captured[1]
        /\ q.favorite = <<>> \/ e.favorite = q.favorite[1]}

\* C8: list returns only entries of the caller that match every supplied
\* filter, each once, ordered by the chosen key in the chosen direction;
\* with n matching entries it skips the first min(offset, n) of that order
\* and returns the next min(limit, n - skipped); it changes no stored state.
C8_ListContract ==
    [][ Handled("list")
        => LET q == last'.data[1]
               r == last'.result[1]
               M == Matching(last'.user, q)
               out == M \ Range(r)
               skipped == Min(q.offset, Cardinality(M))
           IN  /\ last'.status = 200
               /\ Range(r) \subseteq M
               /\ \A i, j \in DOMAIN r :
                    i < j => (r[i] # r[j] /\ ~Before(q.sort, q.order, r[j], r[i]))
               /\ Len(r) = Min(q.limit, Cardinality(M) - skipped)
               /\ \E before \in SUBSET out :
                    /\ Cardinality(before) = skipped
                    /\ \A b \in before, x \in M \ before :
                         ~Before(q.sort, q.order, x, b)
                    /\ \A a \in out \ before, x \in Range(r) :
                         ~Before(q.sort, q.order, a, x)
               /\ UNCHANGED <<now, entries, teams, members, cache>> ]_vars

\* user 1 has just listed the second of the captured entries while user 2
\* holds an entry too
C8_Witness ==
    /\ last.op = "list" /\ last.user = 1
    /\ last.data[1].captured = <<TRUE>> /\ last.data[1].offset = 1
    /\ Len(last.result[1]) = 1
    /\ \E e \in entries : e.owner_id = 2

\* r[i] and r[j] have the same value of the sort key
SameKey(q, a, b) ==
    ~Before(q.sort, q.order, a, b) /\ ~Before(q.sort, q.order, b, a)

\* C9: two list calls with identical parameters over identical stored data
\* return the same entries in the same order, and entries with equal sort
\* key come in ascending order of id.
C9_StableTieBreak ==
    [][ Handled("list")
        => LET q == last'.data[1]
               r == last'.result[1]
           IN  /\ \A i, j \in DOMAIN r :
                    (i < j /\ SameKey(q, r[i], r[j])) => r[i].id < r[j].id
               /\ (last.op = "list" /\ last.user = last'.user
                   /\ last.data = last'.data)
                    => last'.result = last.result ]_vars

----------------------------------------------------------------------------
(* Properties of the export, checked under SpecList *)

\* the text of an optional text column: empty for None
TextOf(o) == IF o = <<>> THEN "" ELSE o[1]

\* the data row `row` carries the field values of entry e, column by column
RowMatches(row, e) ==
    /\ Len(row) = Len(fieldnames)
    /\ row[1] = ToString(e.id)
    /\ row[2] = ToString(e.pokemon_id)
    /\ row[3] = e.pokemon_name
    /\ row[4] = e.pokemon_sprite
    /\ (row[5] = "True") = e.is_captured /\ row[5] \in {"True", "False"}
    /\ (row[6] = "") = (e.capture_date = <<>>)
    /\ e.capture_date # <<>> => row[6] = IsoFormat(e.capture_date[1])
    /\ row[7] = TextOf(e.nickname)
    /\ row[8] = TextOf(e.notes)
    /\ (row[9] = "True") = e.favorite /\ row[9] \in {"True", "False"}
    /\ row[10] = IsoFormat(e.created_at)

\* C13: for the filters of an export, every entry a list with the same
\* filters returns appears as exactly one data row of the export, with
\* matching field values, and every data row is the row of an entry of the
\* caller that matches the filters.
C13_ExportMatchesList ==
    [][ Handled("export")
        => LET q == last'.data[1]
               rows == last'.result[1].rows
               M == Matching(last'.user, q)
           IN  /\ last'.status = 200
               /\ \A k \in SortKeys, o \in Orders :
                    \A r \in ListResults(last'.user, q.captured, q.favorite,
                                         k, o, MaxId + 1, 0) :
                       \A i \in DOMAIN r :
                          /\ Cardinality({j \in DOMAIN rows :
                                             rows[j][1] = ToString(r[i].id)}) = 1
                          /\ \E j \in DOMAIN rows : RowMatches(rows[j], r[i])
               /\ \A j \in DOMAIN rows : \E e \in M : RowMatches(rows[j], e)
               /\ Len(rows) = Cardinality(M) ]_vars

\* user 1 has just exported the two captured entries, one with a nickname,
\* while holding an entry that is not captured
C13_Witness ==
    /\ last.op = "export" /\ last.user = 1
    /\ last.data[1].captured = <<TRUE>>
    /\ Len(last.result[1].rows) = 2
    /\ \E i \in 1 .. 2 : last.result[1].rows[i][7] # ""
    /\ \E e \in entries : e.owner_id = 1 /\ ~e.is_captured

----------------------------------------------------------------------------
(* Properties of the statistics, checked under SpecStats *)

Abs(x) == IF x < 0 THEN -x ELSE x

\* C10: a successful stats of a user reports total = the number of the
\* user's entries, captured = those with is_captured, favorites = those with
\* favorite, and completion_percentage = captured * 100 / total to the
\* nearest tenth (0.0 for total = 0); no entry of another user is counted.
C10_StatsCounts ==
    [][ (Handled("stats") /\ last'.status = 200)
        => LET st == last'.result[1]
               mine == {e \in entries : e.owner_id = last'.user}
               total == Cardinality(mine)
               captured == Cardinality({e \in mine : e.is_captured})
           IN  /\ st.total_pokemon = total
               /\ st.captured = captured
               /\ st.favorites = Cardinality({e \in mine : e.favorite})
               /\ IF total = 0 THEN st.completion_percentage = 0
                  ELSE 2 * Abs(st.completion_percentage * total - 1000 * captured)
                          <= total ]_vars

\* user 1 has just been told 66.7 percent: two of three entries captured,
\* one favorite
C10_Witness ==
    /\ last.op = "stats" /\ last.status = 200 /\ last.user = 1
    /\ last.result[1].total_pokemon = 3 /\ last.result[1].captured = 2
    /\ last.result[1].favorites = 1
    /\ last.result[1].completion_percentage = 667

----------------------------------------------------------------------------
(* Properties of the most common type, checked under SpecStats *)

\* the type tags the catalog gives Pokemon p
CatalogTypes(p) == Range(Payload(p).types)

\* the number of distinct Pokemon among `ids` that carry type tag t
Tally(ids, t) == Cardinality({p \in ids : t \in CatalogTypes(p)})

\* the tags in the order a tally over the entries in order s meets them
RECURSIVE TagsMet(_)
TagsMet(s) ==
    IF s = <<>> THEN <<>> ELSE Payload(s[1].pokemon_id).types \o TagsMet(Tail(s))

\* tag t is met before every other tag of the highest tally in TagsMet(s)
FirstOfBest(ids, s, t) ==
    \E i \in DOMAIN TagsMet(s) :
        /\ TagsMet(s)[i] = t
        /\ \A j \in 1 .. (i - 1) : Tally(ids, TagsMet(s)[j]) < Tally(ids, t)

\* C12: most_common_type of a successful stats is the type tag with the
\* highest tally when each distinct pokemon_id of the caller's entries
\* contributes its catalog type tags once; among tags of equal highest tally
\* it is the one met first in the order of the tally; it is null when the
\* caller has no entries.
C12_MostCommonType ==
    [][ (Handled("stats") /\ last'.status = 200)
        => LET mine == {e \in entries : e.owner_id = last'.user}
               ids == {e.pokemon_id : e \in mine}
               tags == UNION {CatalogTypes(p) : p \in ids}
               got == last'.result[1].most_common_type
           IN  /\ (got = <<>>) <=> (tags = {})
               /\ mine = {} => got = <<>>
               /\ got # <<>>
                    => /\ got[1] \in tags
                       /\ \A t \in tags : Tally(ids, t) <= Tally(ids, got[1])
                       /\ \E s \in Scans(mine) : FirstOfBest(ids, s, got[1]) ]_vars

\* user 1 holds Pokemon 1 (grass, poison) and 4 (fire), every tag has tally
\* 1, and the statistics report the tag met first, grass
C12_Witness ==
    /\ last.op = "stats" /\ last.status = 200 /\ last.user = 1
    /\ last.result[1].most_common_type = <<"grass">>
    /\ {e.pokemon_id : e \in {x \in entries : x.owner_id = 1}} = {1, 4}

----------------------------------------------------------------------------
(* Properties of the capture streak, checked under SpecStreak *)

\* the calendar days on which user u's entries were captured
CaptureDays(u) ==
    {Date(e.capture_date[1]) :
        e \in {x \in entries : x.owner_id = u /\ ~IsNone(x.capture_date)}}

\* k days in a row starting at day d are all in D
RunOf(D, d, k) == \A i \in 0 .. (k - 1) : (d + i) \in D

\* the length of the longest run of consecutive days in D, 0 for no day
LongestRun(D) ==
    IF D = {} THEN 0
    ELSE CHOOSE k \in 1 .. Cardinality(D) :
            /\ \E d \in D : RunOf(D, d, k)
            /\ \A d \in D : ~RunOf(D, d, k + 1)

\* C11: capture_streak_days of a successful stats is the length of the
\* longest run of consecutive calendar days in the set of distinct capture
\* days of the caller's entries (a day with several captures counts once, a
\* gap of more than one day starts a new run), and 0 when no entry has a
\* capture date.
C11_LongestStreak ==
    [][ (Handled("stats") /\ last'.status = 200)
        => last'.result[1].capture_streak_days = LongestRun(CaptureDays(last'.user)) ]_vars

\* the statistics report a streak of 2 for captures on three days of which
\* two are consecutive and one lies after a gap
C11_Witness ==
    /\ last.op = "stats" /\ last.status = 200
    /\ last.result[1].capture_streak_days = 2
    /\ Cardinality(CaptureDays(last.user)) = 3

\* the statistics report a streak of 1 for two captures on the same day
C11_SameDay ==
    /\ last.op = "stats" /\ last.status = 200
    /\ last.result[1].capture_streak_days = 1
    /\ last.result[1].captured = 2
    /\ \E e1, e2 \in entries : e1 # e2 /\ e1.capture_date # e2.capture_date
                               /\ Date(e1.capture_date[1]) = Date(e2.capture_date[1])

----------------------------------------------------------------------------
(* Properties of team creation, checked under SpecCompose *)

\* the member list of the request names a Pokemon the caller holds no entry of
NotHeld(u, ids) == {i \in DOMAIN ids : ~OwnerHolds(u, ids[i])}

\* the member list is empty, longer than six or repeats an id
BadShape(ids) ==
    \/ Len(ids) = 0
    \/ Len(ids) > 6
    \/ \E i, j \in DOMAIN ids : i # j /\ ids[i] = ids[j]

\* C14: a team create whose member list is empty, longer than six, repeats a
\* catalog id or names a catalog id absent from the caller's collection
\* answers 400, in the last case naming an id of the list the caller does
\* not hold, and stores no team row and no member row.
C14_InvalidCreateRefused ==
    [][ /\ Handled("create_team")
        /\ BadShape(last'.data.pokemon_ids)
              \/ NotHeld(last'.user, last'.data.pokemon_ids) # {}
        => /\ last'.status = 400
           /\ teams' = teams /\ members' = members
           /\ ~BadShape(last'.data.pokemon_ids)
                => \E i \in NotHeld(last'.user, last'.data.pokemon_ids) :
                       last'.result = <<last'.data.pokemon_ids[i]>> ]_vars

\* user 1, who holds Pokemon 1 and a team, has just been refused a team of
\* Pokemon 1 and 2: the answer names Pokemon 2
C14_Witness ==
    /\ last.op = "create_team" /\ last.user = 1 /\ last.status = 400
    /\ last.data.pokemon_ids = <<1, 2>> /\ last.result = <<2>>
    /\ OwnerHolds(1, 1) /\ ~OwnerHolds(1, 2)
    /\ teams # {}

\* user 1, who holds Pokemon 1 to 2, has been refused a list of seven ids
C14_TooLong ==
    /\ last.op = "create_team" /\ last.status = 400
    /\ Len(last.data.pokemon_ids) = 7
    /\ OwnerHolds(1, 1) /\ OwnerHolds(1, 2)

\* the member rows of a team
MembersOf(rows, team_id) == {m \in rows : m.team_id = team_id}

\* the rows `rows` are one member per id of the list `ids`, at the position
\* of the id in the list, each referencing an entry of `u` for that Pokemon
MembersFollow(rows, u, ids) ==
    /\ Cardinality(rows) = Len(ids)
    /\ \A i \in DOMAIN ids :
          \E m \in rows :
              /\ m.position = i
              /\ \E e \in entries : /\ e.id = m.pokedex_entry_id
                                    /\ e.owner_id = u
                                    /\ e.pokemon_id = ids[i]

\* this step stores one team of the caller, with the id answered, and its
\* member rows and nothing else
TeamStored ==
    /\ entries' = entries
    /\ \E t \in teams' :
          /\ t \notin teams /\ teams' = teams \cup {t}
          /\ t.id = last'.id /\ t.trainer_id = last'.user
          /\ \A o \in teams : o.id # t.id
          /\ members \subseteq members'
          /\ members' \ members = MembersOf(members', t.id)
          /\ MembersFollow(MembersOf(members', t.id), last'.user,
                           last'.data.pokemon_ids)

\* a create_team step whose list has one to six distinct ids the caller holds
ValidCreate ==
    /\ Handled("create_team")
    /\ ~BadShape(last'.data.pokemon_ids)
    /\ NotHeld(last'.user, last'.data.pokemon_ids) = {}

\* C15: a team create with one to six distinct catalog ids the caller holds
\* answers 201, stores one team of the caller and one member row per id, at
\* the 1-based position of the id and referencing the caller's entry for it,
\* and returns the catalog ids in the supplied order.
C15_ValidCreateSucceeds ==
    [][ ValidCreate => /\ TeamStored
                       /\ last'.status = 201
                       /\ last'.result = <<last'.data.pokemon_ids>> ]_vars

\* what the code does keep of C15: the rows are stored
C15_RowsStored == [][ ValidCreate => TeamStored ]_vars

\* the rows are stored and the answer is not 201
C15_Answered500 ==
    /\ last.op = "create_team" /\ last.status = 500
    /\ last.data.pokemon_ids = <<1, 2>>
    /\ \E t \in teams : t.id = last.id /\ Cardinality(MembersOf(members, t.id)) = 2

----------------------------------------------------------------------------
(* Properties of the stored teams, checked under SpecCompose *)

\* the handler of the response r raised no HTTPException: the request went
\* through to session.commit()
Committed(r) == r.status \notin {400, 403, 404}

\* C16: in every reachable state every stored team has between 1 and 6 member
\* rows, whose positions are pairwise distinct and are exactly 1 .. n for a
\* team of n members.
C16_TeamPositions ==
    \A t \in teams :
        LET rows == MembersOf(members, t.id)
            n == Cardinality(rows)
        IN  /\ n \in 1 .. 6
            /\ {m.position : m \in rows} = 1 .. n
            /\ \A a, b \in rows : a.position = b.position => a = b

\* an update has just replaced the one member of a team of user 1 by two,
\* next to a team of one member of user 2
C16_Witness ==
    /\ last.op = "update_team" /\ Committed(last)
    /\ ~IsNone(last.data.pokemon_ids)
    /\ \E t \in teams : /\ t.id = last.id
                        /\ Cardinality(MembersOf(members, t.id)) = 2
                        /\ \E m \in MembersOf(members, t.id) : m.id > 2
    /\ \E t \in teams : /\ t.trainer_id = 2
                        /\ Cardinality(MembersOf(members, t.id)) = 1

----------------------------------------------------------------------------
(* Properties of team members and team deletion, checked under SpecDisband *)

\* C17: in every reachable state, also after a collection entry a team uses
\* was deleted, every member row of a team references an existing collection
\* entry owned by the user who owns the team.
C17_MembersReferenceOwnEntries ==
    \A t \in teams : \A m \in MembersOf(members, t.id) :
        \E e \in entries : e.id = m.pokedex_entry_id /\ e.owner_id = t.trainer_id

\* what create and update do keep: the members written by a step reference
\* entries of the caller
C17_WrittenMembersOwned ==
    [][ \A m \in members' \ members :
          \E e \in entries : e.id = m.pokedex_entry_id /\ e.owner_id = last'.user ]_vars

\* a member row of a team of user 1 references no entry
C17_Dangling ==
    \E t \in teams : \E m \in MembersOf(members, t.id) :
        /\ t.trainer_id = 1
        /\ \A e \in entries : e.id # m.pokedex_entry_id

\* a member row of a team of user 1 references an entry of user 2
C17_Foreign ==
    \E t \in teams : \E m \in MembersOf(members, t.id) :
        /\ t.trainer_id = 1
        /\ \E e \in entries : e.id = m.pokedex_entry_id /\ e.owner_id = 2

----------------------------------------------------------------------------
(* Properties of team updates, checked under SpecCompose *)

\* an update_team step that was not refused
UpdateCommitted == Handled("update_team") /\ Committed(last')

----------------------------------------------------------------------------
(* Properties of team deletion, checked under SpecDisband *)

\* C20: a delete of a team by its owner removes the member rows of the team
\* and the team: afterwards no team and no member row has that team id and
\* the list of the owner's teams does not show it; the other teams, their
\* member rows and all collection entries are unchanged.
C20_DeleteCascades ==
    [][ \A owner \in Users : \A t \in teams :
          ( /\ Handled("delete_team")
            /\ last'.user = owner /\ last'.id = t.id
            /\ t.trainer_id = owner )
          => /\ \A o \in teams' : o.id # t.id
             /\ \A m \in members' : m.team_id # t.id
             /\ \A o \in TeamsOf(owner)' : o.id # t.id
             /\ teams' = teams \ {t}
             /\ members' = members \ MembersOf(members, t.id)
             /\ entries' = entries ]_vars

\* user 1 has just deleted a team; the team of user 2, its member row and
\* the entries of both users are still there
C20_Witness ==
    /\ last.op = "delete_team" /\ last.user = 1 /\ last.status = 204
    /\ \A t \in teams : t.id # last.id
    /\ \A m \in members : m.team_id # last.id
    /\ \E t \in teams : t.trainer_id = 2 /\ MembersOf(members, t.id) # {}
    /\ OwnerHolds(1, 1) /\ OwnerHolds(2, 1)

----------------------------------------------------------------------------
(* Properties of login and register, checked under SpecAccounts *)

\* no user has the username; a user has it and another password
NoSuchUser(username) == \A u \in users : u.username # username
WrongPassword(username, password) ==
    \E u \in users : /\ u.username = username
                      /\ u.hashed_password # get_password_hash(password)

\* C21: authenticate returns no user both when the username does not exist
\* and when the password does not match, and login answers both cases with
\* status 401, the same detail and the same headers.
C21_LoginIndistinguishable ==
    [][ ( /\ Handled("login")
          /\ \/ NoSuchUser(last'.data.username)
             \/ WrongPassword(last'.data.username, last'.data.password) )
        => /\ authenticate_user(last'.data.username, last'.data.password) = <<>>
           /\ last'.status = 401
           /\ last'.result = <<[detail |-> "Incorrect username or password",
                                headers |-> <<"WWW-Authenticate", "Bearer">>]>> ]_vars

\* brock, registered with one password, has just been refused with the other
C21_Witness ==
    /\ last.op = "login" /\ last.status = 401
    /\ last.data = [username |-> "brock", password |-> "starmie"]
    /\ \E u \in users : /\ u.username = "brock"
                        /\ u.hashed_password = get_password_hash("pikachu")

\* gary, whom nobody registered, has just been refused
C21_UnknownName ==
    /\ last.op = "login" /\ last.status = 401
    /\ last.data.username = "gary" /\ NoSuchUser("gary")
    /\ Cardinality(users) = 3

----------------------------------------------------------------------------
(* Properties of token resolution, checked under SpecAuth *)

\* the token is missing, forged, expired, without subject, or of nobody
Unauthorized(token) ==
    \/ token = <<>>
    \/ token[1].key # SECRET_KEY
    \/ token[1].exp < now
    \/ token[1].sub = <<>>
    \/ \A u \in users : u.username # token[1].sub[1]

\* the token is good and its user is deactivated
InactiveAccount(token) ==
    /\ ~Unauthorized(token)
    /\ \E u \in users : u.username = token[1].sub[1] /\ ~u.is_active

\* a step that answers a protected request
ProtectedRequest ==
    Handled("add") \/ Handled("delete") \/ Handled("create_team")

\* C22: resolving a bearer token fails with 401 when the token is missing,
\* forged, expired, without subject or names no user, fails with another
\* error (400, "Inactive user") when the user is deactivated, and returns the
\* user of the subject otherwise; a protected request whose token does not
\* resolve is answered with that error and changes no stored row.
C22_TokenResolution ==
    [][ /\ \A token \in TokenSpace :
              LET resolved == get_current_user(token)
              IN  /\ Unauthorized(token)
                        => /\ resolved.user = <<>>
                           /\ resolved.error # <<>>
                           /\ resolved.error[1].status = 401
                  /\ InactiveAccount(token)
                        => /\ resolved.user = <<>>
                           /\ resolved.error = <<[status |-> 400,
                                                  detail |-> "Inactive user"]>>
                  /\ (~Unauthorized(token) /\ ~InactiveAccount(token))
                        => /\ resolved.error = <<>>
                           /\ \E u \in users : /\ resolved.user = <<u>>
                                               /\ u.username = token[1].sub[1]
        /\ (ProtectedRequest /\ last'.user = 0)
              => /\ Unauthorized(last'.data.token) \/ InactiveAccount(last'.data.token)
                 /\ Unauthorized(last'.data.token) => last'.status = 401
                 /\ InactiveAccount(last'.data.token)
                       => last'.status = 400 /\ last'.result = <<"Inactive user">>
                 /\ StoreUnchanged /\ users' = users
        /\ (ProtectedRequest /\ last'.user # 0)
              => \E u \in users : u.id = last'.user /\ u.is_active ]_vars

\* ash, who holds an entry, was deactivated and has just been refused a
\* request with a token that is signed and not expired
C22_Witness ==
    /\ last.op = "delete" /\ last.user = 0 /\ last.status = 400
    /\ last.data.token[1].sub = <<"ash">> /\ last.data.token[1].key = SECRET_KEY
    /\ last.data.token[1].exp >= now
    /\ \E u \in users : u.username = "ash" /\ ~u.is_active
    /\ \E e \in entries : e.owner_id = 1

\* a token of ash that has expired has just been refused with 401
C22_Expired ==
    /\ last.op = "add" /\ last.user = 0 /\ last.status = 401
    /\ last.data.token # <<>>
    /\ last.data.token[1].sub = <<"ash">> /\ last.data.token[1].key = SECRET_KEY
    /\ last.data.token[1].exp < now
    /\ \E u \in users : u.username = "ash" /\ u.is_active

----------------------------------------------------------------------------
(* Properties of register, checked under SpecAccounts *)

\* C23: in every state reached by register calls no two users share a
\* username and no two users share an email, and a register call whose
\* username or email an existing user has answers 400 and creates no user.
C23_UniqueUsers ==
    /\ [](\A a, b \in users :
            (a.username = b.username \/ a.email = b.email) => a = b)
    /\ [][ ( /\ Handled("register")
              /\ \E u \in users : \/ u.username = last'.data.username
                                   \/ u.email = last'.data.email )
            => last'.status = 400 /\ users' = users ]_vars

\* with brock registered, a register of a new name with the email of brock
\* has just been refused
C23_Witness ==
    /\ last.op = "register" /\ last.status = 400
    /\ last.data = [username |-> "gary", email |-> "brock@kanto.io"]
    /\ \E u \in users : u.username = "brock" /\ u.email = "brock@kanto.io"
    /\ NoSuchUser("gary")

----------------------------------------------------------------------------
(* Properties of get_pokemon, checked under SpecCatalog *)

\* the step is the upstream answering the call r of get_pokemon with outcome
Answers(r, outcome) ==
    /\ r \in inflight
    /\ last'.id = r.rid
    /\ last'.op \in {"get_pokemon", "get_pokemon_sent"}
    /\ last'.data.upstream = <<outcome>>
    /\ \A q \in inflight : q # r => q \in inflight'

\* C24: a get whose upstream call fails is not retried: the failure is
\* answered at once, 404 when the upstream answered 404, 502 or 503 when it
\* answered another error status or the network failed, and exactly one
\* upstream request has been made for the get.
C24_FailureNotRetried ==
    [][ \A r \in inflight : \A outcome \in {"404", "status", "network"} :
            Answers(r, outcome)
                => /\ last'.op = "get_pokemon"
                   /\ \A q \in inflight' : q.rid # r.rid
                   /\ outcome = "404" => last'.status = 404
                   /\ outcome = "status" => last'.status = 502
                   /\ outcome = "network" => last'.status = 503
                   /\ last'.result[1].requests = 1
                   /\ r.requests = 1 ]_vars

\* a get of a name the catalog has was answered 502 after one request while
\* another get is still waiting
C24_Witness ==
    /\ last.op = "get_pokemon" /\ last.status = 502
    /\ last.data = [identifier |-> "ivysaur", upstream |-> <<"status">>]
    /\ last.result[1].requests = 1
    /\ \E q \in inflight : q.rid # last.id
    /\ \A c \in cache : c.key # "ivysaur"

\* a get of an unknown identifier was answered 404
C24_NotFound ==
    /\ last.op = "get_pokemon" /\ last.status = 404
    /\ last.data = [identifier |-> "999999", upstream |-> <<"404">>]
    /\ last.result[1].requests = 1

----------------------------------------------------------------------------
(* Properties of the cache of get_pokemon, checked under SpecCatalog *)

\* row c holds the normalized answer of the upstream for a Pokemon, under
\* the id of that Pokemon or under a lower-cased identifier of it
Normalized(c) ==
    \E id \in 1 .. 2 :
        /\ c.pokemon = transform_pokemon(Payload(id))
        /\ \/ c.key = ToString(id)
           \/ \E identifier \in Identifiers :
                /\ CatalogItem(identifier) = <<id>>
                /\ c.key = lower(identifier)

\* C30: the cache holds only normalized results of successful upstream
\* responses, one per key; a failed get changes no cache entry; a successful
\* get stores its result under the lower-cased identifier and under the
\* numeric id of the item; a get whose lower-cased identifier is in the
\* cache returns the stored value and makes no upstream request, whatever
\* other gets are in flight.
C30_CacheHoldsResults ==
    /\ [](\A c \in cache : /\ Normalized(c)
                            /\ \A d \in cache : d.key = c.key => d = c)
    /\ [][ /\ \A r \in inflight :
                /\ (\E outcome \in {"404", "status", "network"} : Answers(r, outcome))
                      => cache' = cache
                /\ Answers(r, "ok")
                      => LET pokemon == last'.result[1].pokemon[1]
                         IN  /\ last'.status = 200
                             /\ [key |-> lower(r.identifier), pokemon |-> pokemon] \in cache'
                             /\ [key |-> ToString(pokemon.id), pokemon |-> pokemon] \in cache'
                             /\ \A c \in cache :
                                    c.key \notin {lower(r.identifier), ToString(pokemon.id)}
                                        => c \in cache'
           /\ \A identifier \in Identifiers :
                ( /\ \E c \in cache : c.key = lower(identifier)
                  /\ last' # last
                  /\ last'.op \in {"get_pokemon", "get_pokemon_sent"}
                  /\ last'.data = [identifier |-> identifier, upstream |-> <<>>] )
                    => /\ last'.op = "get_pokemon" /\ last'.status = 200
                       /\ last'.result[1].requests = 0
                       /\ \E c \in cache : /\ c.key = lower(identifier)
                                            /\ last'.result[1].pokemon = <<c.pokemon>>
                       /\ inflight' = inflight /\ cache' = cache ]_vars

\* bulbasaur was fetched by name; a get of "Bulbasaur" was then answered
\* from the cache while another get waits for the upstream
C30_Witness ==
    /\ last.op = "get_pokemon" /\ last.status = 200
    /\ last.data = [identifier |-> "Bulbasaur", upstream |-> <<>>]
    /\ last.result[1].requests = 0
    /\ last.result[1].pokemon = <<transform_pokemon(Payload(1))>>
    /\ {c.key : c \in cache} = {"bulbasaur", "1"}
    /\ inflight # {}

\* a get of "1" was answered from the cache after a get by name had stored
\* the Pokemon under its id
C30_ById ==
    /\ last.op = "get_pokemon" /\ last.status = 200
    /\ last.data = [identifier |-> "1", upstream |-> <<>>]
    /\ last.result[1].requests = 0
    /\ \E c \in cache : c.key = "bulbasaur"

\* a get failed while the cache held rows
C30_FailedGet ==
    /\ last.op = "get_pokemon" /\ last.status = 503
    /\ cache # {}

----------------------------------------------------------------------------
(* Properties of nickname and notes, checked under SpecText *)

WithinLimits(e) ==
    /\ Len(TextOf(e.nickname)) <= MaxNickname
    /\ Len(TextOf(e.notes)) <= MaxNotes

\* C25: every stored entry has a nickname of at most 50 characters and
\* notes of at most 500 characters: an add or a patch that carries a longer
\* value is rejected and stores nothing.
C25_TextWithinLimits == \A e \in entries : WithinLimits(e)

\* an add that carried a nickname of 51 characters has just answered 201
\* and its entry is stored with that nickname
C25_LongNicknameAdded ==
    /\ last.op = "add" /\ last.status = 201
    /\ \E e \in entries : /\ <<e.id>> = last.result
                          /\ e.nickname = <<LongNickname>>

\* a patch that carried notes of 501 characters has just answered 200 and
\* the entry is stored with those notes
C25_LongNotesPatched ==
    /\ last.op = "patch" /\ last.status = 200
    /\ last.data = [notes |-> <<LongNotes>>]
    /\ \E e \in entries : e.id = last.id /\ e.notes = <<LongNotes>>

----------------------------------------------------------------------------
(* Properties of the capture date, checked under SpecCapture *)

\* C27: in every state reached by adds and patches, every entry whose
\* is_captured is true has a capture_date that is not null.
C27_CapturedHasDate ==
    \A e \in entries : e.is_captured => e.capture_date # <<>>

\* an entry added uncaptured at time 0 has just been patched to captured
\* at a later time and carries that time as its capture date
C27_Witness ==
    /\ last.op = "patch" /\ last.status = 200
    /\ last.data = [is_captured |-> <<TRUE>>]
    /\ \E e \in entries : /\ e.id = last.id /\ e.is_captured
                          /\ e.created_at = 0 /\ now > 0
                          /\ e.capture_date = <<now>>

----------------------------------------------------------------------------
(* Properties of a refused team update, checked under SpecCompose *)

\* C28: an update of an own team that carries a member list that is
\* invalid answers 400 and is atomic also when it carries a new name or a
\* new description: the team keeps the name, the description and the member
\* rows it had, and no other row changes.
C28_RefusedUpdateAtomic ==
    [][ \A t \in teams :
          ( /\ Handled("update_team")
            /\ last'.id = t.id /\ last'.user = t.trainer_id
            /\ last'.data # <<>>
            /\ last'.data.pokemon_ids # <<>>
            /\ ValidateMembers(t.trainer_id, last'.data.pokemon_ids[1]) # 0 )
              => /\ last'.status = 400
                 /\ t \in teams'
                 /\ teams' = teams
                 /\ members' = members
                 /\ entries' = entries ]_vars

\* an update that carried a new name, a new description and a list with a
\* Pokemon the owner does not hold has just been refused; the team has its
\* first name, no description and its member
C28_Witness ==
    /\ last.op = "update_team" /\ last.status = 400 /\ last.user = 1
    /\ last.data = TeamUpdateBody(<<"Sun Team">>, <<"sun team">>, <<<<1, UnknownId>>>>)
    /\ \E t \in teams : /\ t.id = last.id /\ t.trainer_id = 1
                        /\ t.name = "My Team" /\ t.description = <<>>
                        /\ MembersOf(members, t.id) # {}

----------------------------------------------------------------------------
(* Properties of the streak of released entries, checked under SpecRelease *)

\* the calendar days on which the entries user u holds captured were captured
CapturedDays(u) ==
    {Date(e.capture_date[1]) :
        e \in {x \in entries : /\ x.owner_id = u /\ x.is_captured
                                /\ ~IsNone(x.capture_date)}}

\* C29: stats computes capture_streak_days from the entries that are
\* captured at the time of the call only: whenever the captured count it
\* reports is 0 the streak is 0, also after entries were captured and then
\* patched back to is_captured false.
C29_StreakOfCaptured ==
    [][ (Handled("stats") /\ last'.status = 200)
        => /\ last'.result[1].capture_streak_days = LongestRun(CapturedDays(last'.user))
           /\ last'.result[1].captured = 0
                 => last'.result[1].capture_streak_days = 0 ]_vars

\* the statistics report no captured entry and a streak of 1: the one entry
\* was captured and then patched back to is_captured false, and has kept
\* its capture date
C29_StreakOfReleased ==
    /\ last.op = "stats" /\ last.status = 200
    /\ last.result[1].captured = 0
    /\ last.result[1].capture_streak_days = 1
    /\ \A e \in entries : ~e.is_captured
    /\ \E e \in entries : e.owner_id = 1 /\ e.capture_date # <<>>

----------------------------------------------------------------------------
(* Properties of concurrent adds, checked under SpecRace *)

\* the entries of user u for Pokemon p among rows
PairRows(rows, u, p) == {e \in rows : e.owner_id = u /\ e.pokemon_id = p}

\* the step is request r coming back from a catalog lookup that succeeded
Commits(r) ==
    /\ r \in inflight /\ inflight' = inflight \ {r}
    /\ last'.op = "add" /\ last'.data = <<"ok">>

\* C26: the duplicate check of add and its insert are a read and a later
\* write with nothing held between them: a request passes the check exactly
\* when the caller holds no entry of the Pokemon at that moment, and every
\* request that passed it and whose lookup succeeds answers 201 and stores
\* one more entry of the caller and the Pokemon, whatever was stored since
\* its check; so two interleaved adds of one user and one Pokemon both
\* succeed and leave two entries with that pair.
C26_CheckThenInsert ==
    [][ /\ \A rid \in 1 .. MaxAdds, u \in Users, p \in {1, 2} :
              ( /\ last' # last /\ last'.user = u /\ last'.id = p
                /\ \/ last'.op = "add_checked"
                   \/ last'.op = "add" /\ inflight' = inflight )
                  => /\ (last'.status = 400) <=> (PairRows(entries, u, p) # {})
                     /\ entries' = entries
        /\ \A r \in inflight :
              Commits(r)
                => /\ last'.status = 201
                   /\ \E e \in entries' \ entries :
                        /\ <<e.id>> = last'.result
                        /\ e.owner_id = r.current_user
                        /\ e.pokemon_id = r.data.pokemon_id
                        /\ entries' = entries \cup {e}
                   /\ Cardinality(PairRows(entries', r.current_user, r.data.pokemon_id))
                        = Cardinality(PairRows(entries, r.current_user, r.data.pokemon_id)) + 1
      ]_vars

\* two adds of Pokemon 1 by user 1 have both answered 201, the second just
\* now, and two entries of user 1 and Pokemon 1 are stored
C26_Witness ==
    /\ last.op = "add" /\ last.status = 201 /\ last.user = 1 /\ last.id = 1
    /\ Cardinality(PairRows(entries, 1, 1)) = 2
    /\ inflight = {}

====
